---- MODULE Spec2Model ----
(***************************************************************************)
(* Tree state and interaction engine of shadcn-treeview: the nested/flat   *)
(* converters (lib/tree-utils.ts), the expansion, selection and lazy-load  *)
(* state of one tree instance (hooks/use-tree-state.ts, use-tree-lazy.ts,  *)
(* tree-view.tsx, use-tree-keyboard.ts) and its drag-and-drop session      *)
(* (hooks/use-tree-dnd.ts).                                                *)
(*                                                                         *)
(* Encoding of JavaScript values:                                          *)
(*   - a node id is a positive integer, NULL (0) is `null`;                *)
(*   - an optional field is Undefined (<<>>) or Some(v) (<<v>>): this is   *)
(*     how TreeNodeNested.isGroup and TreeNodeNested.children are held;    *)
(*   - a nullable depth is NullDepth (-1) or the depth;                    *)
(*   - arrays are sequences; sibling `index` stays 0-based as in the code. *)
(***************************************************************************)
EXTENDS Integers, Sequences, FiniteSets, TLC

\* ------------------------------------------------------------ bounds ----
\* nodes of a tree the caller supplies
MaxNodes == 3

\* loads in flight at once
MaxInFlight == 2

\* drags started in one behaviour
MaxDrags == 1

\* childless groups in a tree that is dragged in
MaxEmptyGroups == 1

\* ------------------------------------------------------ JS encodings ----
NULL == 0
NullDepth == 0 - 1
Undefined == <<>>
Some(v) == <<v>>

NodeIds == 1..MaxNodes

Max(a, b) == IF a > b THEN a ELSE b
Min(a, b) == IF a < b THEN a ELSE b

\* Array.prototype.findIndex, 1-based; 0 when nothing matches (-1 in JS)
RECURSIVE findIndexFrom(_, _, _)
findIndexFrom(arr, id, i) ==
  IF i > Len(arr) THEN 0
  ELSE IF arr[i].id = id THEN i
  ELSE findIndexFrom(arr, id, i + 1)

findIndex(arr, id) == findIndexFrom(arr, id, 1)

idsOf(arr) == {arr[i].id : i \in DOMAIN arr}

\* ------------------------------------------- lib/tree-utils.ts ----------

\* flattenTree: pre-order traversal of the nested nodes
RECURSIVE flattenTree(_, _, _)
RECURSIVE flattenFrom(_, _, _, _)
flattenFrom(nodes, parentId, depth, i) ==
  IF i > Len(nodes) THEN <<>>
  ELSE
    LET node == nodes[i]
        hasChildren == node.children # Undefined /\ Len(node.children[1]) > 0
        flat == [id |-> node.id,
                 data |-> node.data,
                 isGroup |-> IF node.isGroup # Undefined THEN node.isGroup[1]
                                                         ELSE hasChildren,
                 childrenLoaded |-> node.children # Undefined,
                 parentId |-> parentId,
                 depth |-> depth,
                 index |-> i - 1]
    IN  <<flat>>
        \o (IF node.children # Undefined
              THEN flattenTree(node.children[1], node.id, depth + 1)
              ELSE <<>>)
        \o flattenFrom(nodes, parentId, depth, i + 1)

flattenTreeReversed(nodes, parentId, depth) ==
  LET result == flattenFrom(nodes, parentId, depth, 1)
  IN  [k \in 1..Len(result) |-> result[Len(result) + 1 - k]]

flattenTree(nodes, parentId, depth) == flattenFrom(nodes, parentId, depth, 1)

\* buildTree: parent.children.push(cleanNode)
unshiftChild(children, id) == <<id>> \o children

pushChild(children, id) == Append(children, id)

\* buildTree, second loop.  st.arr is the set of ids whose nodeMap entry holds
\* a children array, st.kids the content of those arrays, st.clean the ids
\* whose cleanNode (a shallow copy taken when the node is visited) got a
\* reference to the array, st.roots the roots array.
RECURSIVE buildLoop(_, _, _)
buildLoop(flatNodes, i, st) ==
  IF i > Len(flatNodes) THEN st
  ELSE
    LET flat == flatNodes[i]
        copied == IF flat.id \in st.arr THEN st.clean \cup {flat.id} ELSE st.clean
        next ==
          IF flat.parentId = NULL
            THEN [st EXCEPT !.clean = copied, !.roots = Append(@, flat.id)]
          ELSE IF flat.parentId \in DOMAIN st.kids
            THEN [st EXCEPT !.clean = copied,
                            !.arr = @ \cup {flat.parentId},
                            !.kids[flat.parentId] = pushChild(@, flat.id)]
          ELSE [st EXCEPT !.clean = copied]
    IN  buildLoop(flatNodes, i + 1, next)

RECURSIVE cleanNode(_, _, _)
cleanNode(flatNodes, st, id) ==
  LET flat == flatNodes[findIndex(flatNodes, id)]
      kids == st.kids[id]
  IN  [id |-> flat.id,
       data |-> flat.data,
       isGroup |-> IF flat.isGroup THEN Some(TRUE) ELSE Undefined,
       children |-> IF id \in st.clean
                      THEN Some([k \in 1..Len(kids) |-> cleanNode(flatNodes, st, kids[k])])
                      ELSE Undefined]

buildTree(flatNodes) ==
  LET ids == idsOf(flatNodes)
      created == [arr |-> {flatNodes[i].id : i \in {j \in DOMAIN flatNodes : flatNodes[j].childrenLoaded}},
                  kids |-> [id \in ids |-> <<>>],
                  clean |-> {},
                  roots |-> <<>>]
      st == buildLoop(flatNodes, 1, created)
  IN  [r \in 1..Len(st.roots) |-> cleanNode(flatNodes, st, st.roots[r])]

\* getVisibleNodes: one pass keeping the set of collapsed ancestors
RECURSIVE visibleLoop(_, _, _, _)
visibleLoop(flatNodes, expanded, i, acc) ==
  IF i > Len(flatNodes) THEN acc.result
  ELSE
    LET node == flatNodes[i]
    IN  IF node.parentId # NULL /\ node.parentId \in acc.collapsedAncestors
          THEN visibleLoop(flatNodes, expanded, i + 1,
                 [acc EXCEPT !.collapsedAncestors = @ \cup {node.id}])
          ELSE visibleLoop(flatNodes, expanded, i + 1,
                 [result |-> Append(acc.result, node),
                  collapsedAncestors |->
                    IF node.isGroup /\ node.id \notin expanded
                      THEN acc.collapsedAncestors \cup {node.id}
                      ELSE acc.collapsedAncestors])

getVisibleNodes(flatNodes, expanded) ==
  visibleLoop(flatNodes, expanded, 1, [result |-> <<>>, collapsedAncestors |-> {}])

\* getDescendantIds: one forward pass growing the set of ids under parentId
RECURSIVE descendantLoop(_, _, _, _)
descendantLoop(flatNodes, i, parentSet, descendants) ==
  IF i > Len(flatNodes) THEN descendants
  ELSE
    LET node == flatNodes[i]
    IN  IF node.parentId # NULL /\ node.parentId \in parentSet
          THEN descendantLoop(flatNodes, i + 1, parentSet \cup {node.id},
                              Append(descendants, node.id))
          ELSE descendantLoop(flatNodes, i + 1, parentSet, descendants)

getDescendantIdsNone(flatNodes, parentId) == <<>>

getDescendantIds(flatNodes, parentId) ==
  descendantLoop(flatNodes, 1, {parentId}, <<>>)

\* reindexSiblings: index = number of earlier nodes with the same parentId
reindexSiblingsKeep(flatNodes) == flatNodes

reindexSiblings(flatNodes) ==
  [i \in 1..Len(flatNodes) |->
     [flatNodes[i] EXCEPT !.index =
        Cardinality({j \in 1..(i - 1) : flatNodes[j].parentId = flatNodes[i].parentId})]]

\* removeNodes: drop ids and everything parented (transitively) under them
RECURSIVE removeSetLoop(_, _, _)
removeSetLoop(flatNodes, i, removeSet) ==
  IF i > Len(flatNodes) THEN removeSet
  ELSE
    LET node == flatNodes[i]
    IN  removeSetLoop(flatNodes, i + 1,
          IF node.parentId # NULL /\ node.parentId \in removeSet
            THEN removeSet \cup {node.id}
            ELSE removeSet)

\* a removal of the listed nodes only
removeNodesListed(flatNodes, ids) ==
  reindexSiblings(SelectSeq(flatNodes, LAMBDA n : n.id \notin ids))

removeNodes(flatNodes, ids) ==
  LET removeSet == removeSetLoop(flatNodes, 1, ids)
  IN  reindexSiblings(SelectSeq(flatNodes, LAMBDA n : n.id \notin removeSet))

\* insertNodes: position of the targetIndex-th node under targetParentId
\* (1-based), Len + 1 when there is none
RECURSIVE insertAtLoop(_, _, _, _, _)
insertAtLoop(flatNodes, i, targetParentId, targetIndex, siblingCount) ==
  IF i > Len(flatNodes) THEN Len(flatNodes) + 1
  ELSE IF flatNodes[i].parentId = targetParentId
    THEN IF siblingCount = targetIndex THEN i
         ELSE insertAtLoop(flatNodes, i + 1, targetParentId, targetIndex, siblingCount + 1)
  ELSE insertAtLoop(flatNodes, i + 1, targetParentId, targetIndex, siblingCount)

insertNodes(flatNodes, nodesToInsert, targetParentId, targetIndex) ==
  LET insertAt == insertAtLoop(flatNodes, 1, targetParentId, targetIndex, 0)
  IN  reindexSiblings(SubSeq(flatNodes, 1, insertAt - 1)
                      \o nodesToInsert
                      \o SubSeq(flatNodes, insertAt, Len(flatNodes)))

\* ------------------------------------------------------------ state -----
VARIABLES
  items,                 \* TreeView prop `items`: the caller's nested tree
  selectionMode,         \* TreeView prop `selectionMode`
  loaderConfigured,      \* whether the prop `loadChildren` is given
  expandedIds,           \* useTreeState: internalExpandedIds
  selectedIds,           \* useTreeState: internalSelectedIds
  focusedId,             \* useTreeState: focusedId
  anchorId,              \* useTreeState: the anchor selectRange remembers
  activeId, overId, dropPosition, projectedDepth, projectedParentId,
                         \* useTreeDnd: React state of the drag session
  dropPositionRef, projectedDepthRef, projectedParentIdRef,
                         \* useTreeDnd: refs read by handleDragEnd
  hoverTimerRef,         \* useTreeDnd: pending auto-expand timer
  hoverTargetRef,        \* useTreeDnd: node the timer was armed for
  offsetRef,             \* useTreeDnd: cumulative pointer offset (x)
  opTarget,              \* drag library: operation.target of the running drag
  drags,                 \* drag library: number of drags started so far
  inFlightRef,           \* useTreeLazy: ids with a load in flight
  loadingIds,            \* useTreeLazy: ids shown as loading
  pending,               \* unsettled loadChildren promises with their closures
  cFlat, cBuilt, cVisible, cStep,
                         \* results of the converters applied to `items`
  cDescendants,          \* the last getDescendantIds call: its parentId and result
  ev,                    \* the event the last handler processed
  calls,                 \* the callbacks the last handler invoked
  registrationsRef,      \* TreeViewDndContext: the registered instances
  lastOverTreeRef,       \* TreeViewDndContext: the instance hovered last
  operation,             \* drag library: the operation of the shared drag
  groupEv,               \* the event the coordinator processed last
  controlledTree,        \* a second instance whose caller owns expandedIds/selectedIds
  changes                \* onExpandedIdsChange/onSelectedIdsChange calls of the last action

treeVars == <<items, selectionMode, loaderConfigured, expandedIds, selectedIds, focusedId,
              anchorId>>
dndVars == <<activeId, overId, dropPosition, projectedDepth, projectedParentId,
             dropPositionRef, projectedDepthRef, projectedParentIdRef,
             hoverTimerRef, hoverTargetRef, offsetRef, opTarget, drags>>
lazyVars == <<inFlightRef, loadingIds, pending>>
convVars == <<cFlat, cBuilt, cVisible, cStep, cDescendants>>
obsVars == <<ev, calls>>
groupVars == <<registrationsRef, lastOverTreeRef, operation, groupEv>>
ownerVars == <<controlledTree, changes>>
vars == <<treeVars, dndVars, lazyVars, convVars, obsVars, groupVars, ownerVars>>

\* useTreeState: flatNodes and visibleNodes are derived from items (useMemo)
flatNodes == flattenTree(items, NULL, 0)
visibleNodes == getVisibleNodes(flatNodes, expandedIds)

\* ----------------------------------------------- caller-supplied trees ---
\* Every ordered forest on the ids 1..n, numbered in pre-order: pv[i] is the
\* parent of i, which is 0 or a node on the path from i-1 to its root.
RECURSIVE AncSelf(_, _)
AncSelf(pv, j) == IF j = 0 THEN {} ELSE {j} \cup AncSelf(pv, pv[j])

ParentVectors(n) ==
  {pv \in [1..n -> 0..n] :
     \A i \in 1..n : pv[i] < i /\ (pv[i] = 0 \/ pv[i] \in AncSelf(pv, i - 1))}

RECURSIVE SortedSeq(_)
SortedSeq(S) ==
  IF S = {} THEN <<>>
  ELSE LET m == CHOOSE x \in S : \A y \in S : x <= y
       IN  <<m>> \o SortedSeq(S \ {m})

DataOf(id) == <<"data", id>>

RECURSIVE MkNodes(_, _, _, _, _)
MkNodes(n, pv, g, c, parent) ==
  LET kids == SortedSeq({i \in 1..n : pv[i] = parent})
  IN  [k \in 1..Len(kids) |->
         [id |-> kids[k],
          data |-> DataOf(kids[k]),
          isGroup |-> g[kids[k]],
          children |-> IF c[kids[k]] THEN Some(MkNodes(n, pv, g, c, kids[k]))
                                     ELSE Undefined]]

\* Forests of n nodes: a node with children has a children field and its
\* isGroup drawn from innerGroups; a node without children has its
\* <<isGroup, children field present>> drawn from leafKinds.
Forests(n, leafKinds, innerGroups) ==
  UNION {
    LET inner == {pv[i] : i \in 1..n} \ {0}
        kinds == {k \in [1..n -> leafKinds \cup (innerGroups \X {TRUE})] :
                    \A i \in 1..n : IF i \in inner THEN k[i][1] \in innerGroups /\ k[i][2]
                                                   ELSE k[i] \in leafKinds}
    IN  {MkNodes(n, pv, [i \in 1..n |-> k[i][1]], [i \in 1..n |-> k[i][2]], 0) : k \in kinds}
    : pv \in ParentVectors(n)}

AnyGroup == {Undefined, Some(TRUE), Some(FALSE)}

\* every nested tree of at most MaxNodes nodes
AllTrees == UNION {Forests(n, AnyGroup \X BOOLEAN, AnyGroup) : n \in 0..MaxNodes}

\* trees whose nodes carry no isGroup and no empty children list
PlainLeaf == <<Undefined, FALSE>>
PlainTrees == UNION {Forests(n, {PlainLeaf}, {Undefined}) : n \in 1..MaxNodes}

\* the last event handled: its kind, the node it was about, and for the
\* properties the expansion set and the selection it found and the loads that
\* resolved meanwhile
NoEvent ==
  [type |-> "none", source |-> NULL, target |-> NULL, canceled |-> FALSE,
   seen |-> {}, was |-> {}, had |-> {}, anchor |-> NULL, vetoed |-> FALSE]

\* the instance of the controlled caller before it is mounted, and no change
\* callback invoked
NoControlled ==
  [expandedIds |-> Undefined, selectedIds |-> Undefined,
   internalExpandedIds |-> {}, internalSelectedIds |-> {}, pending |-> <<>>]
NoChanges == [engine |-> <<>>, owner |-> <<>>, action |-> "none"]
IdleOwner == controlledTree = NoControlled /\ changes = NoChanges

\* the callbacks of the caller the last handler invoked, with their argument,
\* and the flat array it handed to buildTree
NoCalls ==
  [itemsChange |-> <<>>, loadChildren |-> <<>>, loadError |-> <<>>,
   dragEnd |-> <<>>, buildTree |-> <<>>]

\* variables a specification does not use keep these values
IdleTree ==
  /\ selectionMode = "none" /\ loaderConfigured = FALSE
  /\ selectedIds = {} /\ focusedId = NULL /\ anchorId = NULL
IdleDnd ==
  /\ activeId = NULL /\ overId = NULL /\ dropPosition = "null"
  /\ projectedDepth = NullDepth /\ projectedParentId = NULL
  /\ dropPositionRef = "null" /\ projectedDepthRef = NullDepth
  /\ projectedParentIdRef = NULL
  /\ hoverTimerRef = NULL /\ hoverTargetRef = NULL /\ offsetRef = 0
  /\ opTarget = NULL /\ drags = 0
IdleLazy == inFlightRef = {} /\ loadingIds = {} /\ pending = {}
NoDescendants == [parentId |-> NULL, ids |-> <<>>]
IdleConv ==
  /\ cFlat = <<>> /\ cBuilt = <<>> /\ cVisible = <<>> /\ cStep = "input"
  /\ cDescendants = NoDescendants
IdleObs == ev = NoEvent /\ calls = NoCalls

\* the instances under one TreeViewDndContext, by treeId, in the order in
\* which they registered; lastOverTreeRef.current = null
TreeIds == {"A", "B"}
RegistrationOrder == <<"A", "B">>
NoTree == "none"

\* a projection as the coordinator reads it from an instance
NoProjection ==
  [dropPosition |-> "null", projectedDepth |-> NullDepth, projectedParentId |-> NULL]

\* the last event of the shared drag: its kind, the operation it carried,
\* the instance a synthetic cleared over event went to, what the context's
\* own onDragEnd was called with, and for the properties the projection
\* that the last accepted over event of each instance wrote
NoGroupEvent ==
  [type |-> "none", source |-> NULL, target |-> NULL, canceled |-> FALSE,
   left |-> NoTree, ended |-> <<>>, over |-> [t \in TreeIds |-> NoProjection]]

IdleGroup ==
  /\ registrationsRef = <<>> /\ lastOverTreeRef = NoTree
  /\ operation = [source |-> NULL, target |-> NULL]
  /\ groupEv = NoGroupEvent

\* ------------------------------------- hooks/use-tree-state.ts ----------
event(type, source) ==
  [NoEvent EXCEPT !.type = type, !.source = source, !.was = expandedIds,
                  !.had = selectedIds, !.anchor = anchorId]

nodeOf(nodes, id) == nodes[findIndex(nodes, id)]

hasNode(nodes, id) == findIndex(nodes, id) # 0

\* toggleExpand: the updater handed to setExpandedIds
toggleExpandShallow(prev, flat, id) ==
  IF id \in prev THEN prev \ {id} ELSE prev \cup {id}

toggleExpand(prev, flat, id) ==
  IF id \in prev
    THEN (prev \ {id}) \ {d \in prev : \E k \in DOMAIN getDescendantIds(flat, id) :
                                         getDescendantIds(flat, id)[k] = d}
    ELSE prev \cup {id}

\* expand: the updater handed to setExpandedIds
expandNothing(prev, id) == prev

expand(prev, id) == IF id \in prev THEN prev ELSE prev \cup {id}

\* collapse: the updater handed to setExpandedIds
collapse(prev, flat, id) ==
  IF id \notin prev THEN prev
  ELSE (prev \ {id}) \ {d \in prev : \E k \in DOMAIN getDescendantIds(flat, id) :
                                       getDescendantIds(flat, id)[k] = d}

\* select: the set handed to setSelectedIds (the current set when it returns early)
selectNoGuard(mode, prev, id) == {id}

select(mode, prev, id) ==
  IF mode = "none" THEN prev
  ELSE IF mode = "single" THEN {id}
  ELSE {id}

\* toggleSelect: the updater handed to setSelectedIds
toggleSelectAdds(mode, prev, id) ==
  IF mode = "none" THEN prev
  ELSE IF mode = "single" THEN {id}
  ELSE prev \cup {id}

toggleSelect(mode, prev, id) ==
  IF mode = "none" THEN prev
  ELSE IF mode = "single" THEN (IF id \in prev THEN {} ELSE {id})
  ELSE IF id \in prev THEN prev \ {id} ELSE prev \cup {id}

\* selectRange, which use-tree-state.ts does not define although the key
\* handler and the rows call it: taken from the selection engine of the
\* specification.  The span of the visible sequence from the remembered anchor
\* to id, both ends included; without an anchor it is select(id).
selectRangeForward(mode, prev, visible, anchor, id) ==
  IF anchor = NULL THEN select(mode, prev, id)
  ELSE {visible[k].id : k \in findIndex(visible, anchor)..findIndex(visible, id)}

selectRange(mode, prev, visible, anchor, id) ==
  IF anchor = NULL THEN select(mode, prev, id)
  ELSE LET a == findIndex(visible, anchor)
           b == findIndex(visible, id)
       IN  {visible[k].id : k \in Min(a, b)..Max(a, b)}

\* the anchor is the last node selected by a plain select or by a range; a
\* select that returns early leaves it alone
anchorAfterSelect(mode, anchor, id) == IF mode = "none" THEN anchor ELSE id

\* after a range the anchor is one of the two ends of the span: the
\* specification leaves open whether the far end becomes the new anchor
anchorsAfterRange(mode, anchor, id) ==
  IF anchor = NULL THEN {anchorAfterSelect(mode, anchor, id)} ELSE {anchor, id}

\* selectAll, which use-tree-state.ts does not define either: every currently
\* visible node id, in mode multiple only
selectAll(mode, prev, visible) == IF mode = "multiple" THEN idsOf(visible) ELSE prev

\* insertChildren: insertInto over the items the callback closed over
RECURSIVE insertInto(_, _, _)
insertInto(nodes, parentId, children) ==
  [i \in DOMAIN nodes |->
     IF nodes[i].id = parentId
       THEN [nodes[i] EXCEPT !.children =
               Some((IF nodes[i].children # Undefined THEN nodes[i].children[1] ELSE <<>>)
                    \o children)]
     ELSE IF nodes[i].children # Undefined
       THEN [nodes[i] EXCEPT !.children = Some(insertInto(nodes[i].children[1], parentId, children))]
     ELSE nodes[i]]

\* ------------------------------------- hooks/use-tree-lazy.ts -----------
\* what the caller's loadChildren resolves to for a node: one leaf child
LoadedChildId(id) == MaxNodes + id

LoaderResult(id) ==
  <<[id |-> LoadedChildId(id), data |-> DataOf(LoadedChildId(id)),
     isGroup |-> Undefined, children |-> Undefined]>>

\* triggerLoad: the in-flight test
alreadyInFlightNever(inFlight, id) == FALSE

alreadyInFlight(inFlight, id) == id \in inFlight

\* triggerLoad(node), called from a handler of the current render: the promise
\* keeps the insertChildren and expand of that render, hence its items and
\* expandedIds.  `seen` notes the loads that resolved while this one was in flight.
TriggerLoad(node) ==
  IF \/ ~loaderConfigured
     \/ ~node.isGroup
     \/ node.childrenLoaded
     \/ alreadyInFlight(inFlightRef, node.id)
    THEN /\ UNCHANGED lazyVars
         /\ calls' = NoCalls
    ELSE /\ inFlightRef' = inFlightRef \cup {node.id}
         /\ loadingIds' = loadingIds \cup {node.id}
         /\ pending' = pending \cup {[id |-> node.id, items |-> items,
                                       expandedIds |-> expandedIds, seen |-> {}]}
         /\ calls' = [NoCalls EXCEPT !.loadChildren = <<node.id>>]

\* a .finally that leaves the set as it is
afterFinallyKeeps(ids, id) == ids

\* triggerLoad: what .finally does to inFlightRef.current and to loadingIds
afterFinally(ids, id) == ids \ {id}

\* the promise p resolves: .then (insertChildren, expand), .finally
LoadResolve(p) ==
  /\ p \in pending
  /\ LET delivered == insertInto(p.items, p.id, LoaderResult(p.id))
     IN  /\ items' = delivered
         /\ expandedIds' = expand(p.expandedIds, p.id)
         /\ inFlightRef' = afterFinally(inFlightRef, p.id)
         /\ loadingIds' = afterFinally(loadingIds, p.id)
         /\ pending' = {[q EXCEPT !.seen = @ \cup {p.id}] : q \in pending \ {p}}
         /\ ev' = [event("loadResolved", p.id) EXCEPT !.seen = p.seen]
         /\ calls' = [NoCalls EXCEPT !.itemsChange = <<delivered>>]
  /\ UNCHANGED <<selectionMode, loaderConfigured, anchorId, selectedIds, focusedId, dndVars, convVars, ownerVars, groupVars>>

\* the promise p rejects: .catch (onLoadError), .finally
LoadReject(p) ==
  /\ p \in pending
  /\ inFlightRef' = afterFinally(inFlightRef, p.id)
  /\ loadingIds' = afterFinally(loadingIds, p.id)
  /\ pending' = pending \ {p}
  /\ ev' = [event("loadRejected", p.id) EXCEPT !.seen = p.seen]
  /\ calls' = [NoCalls EXCEPT !.loadError = <<p.id>>]
  /\ UNCHANGED <<treeVars, dndVars, convVars, ownerVars, groupVars>>

\* the promise p settles and a callback run on its completion throws.
\* resolved: the caller's onItemsChange throws inside insertChildren, having
\* taken the new tree (stored) or not; expand is skipped, .catch reports the
\* error through onLoadError.  Not resolved: onLoadError itself throws inside
\* .catch.  .finally runs in both cases.
LoadSettleThrowing(p, resolved, stored) ==
  /\ p \in pending
  /\ resolved \/ ~stored
  /\ LET delivered == insertInto(p.items, p.id, LoaderResult(p.id))
     IN  /\ items' = IF stored THEN delivered ELSE items
         /\ calls' = IF resolved
                        THEN [NoCalls EXCEPT !.itemsChange = <<delivered>>,
                                             !.loadError = <<p.id>>]
                        ELSE [NoCalls EXCEPT !.loadError = <<p.id>>]
  /\ inFlightRef' = afterFinally(inFlightRef, p.id)
  /\ loadingIds' = afterFinally(loadingIds, p.id)
  /\ pending' = IF stored THEN {[q EXCEPT !.seen = @ \cup {p.id}] : q \in pending \ {p}}
                          ELSE pending \ {p}
  /\ ev' = [event("loadThrew", p.id) EXCEPT !.seen = p.seen, !.canceled = ~resolved]
  /\ UNCHANGED <<selectionMode, loaderConfigured, anchorId, expandedIds, selectedIds,
                 focusedId, dndVars, convVars, ownerVars, groupVars>>

\* ------------------------------------------- tree-view.tsx --------------
\* components/tree-node.tsx: hasChildren, the expand affordance of a row
hasChildren(flat, node) ==
  node.isGroup /\ (IF node.childrenLoaded
                     THEN \E i \in DOMAIN flat : flat[i].parentId = node.id
                     ELSE TRUE)

\* TreeView.toggleExpand(id): the `toggle` of a rendered row, which the
\* caller's renderNode calls on rows that have children (README, demo)
ToggleExpand(id) ==
  /\ hasNode(visibleNodes, id)
  /\ hasChildren(flatNodes, nodeOf(flatNodes, id))
  /\ Cardinality(pending) < MaxInFlight \/ id \in inFlightRef
       \/ nodeOf(flatNodes, id).childrenLoaded \/ ~loaderConfigured
  /\ LET node == nodeOf(flatNodes, id)
     IN  IF node.isGroup /\ ~node.childrenLoaded /\ loaderConfigured
           THEN /\ TriggerLoad(node)
                /\ UNCHANGED expandedIds
           ELSE /\ expandedIds' = toggleExpand(expandedIds, flatNodes, id)
                /\ calls' = NoCalls
                /\ UNCHANGED lazyVars
  /\ ev' = event("toggle", id)
  /\ UNCHANGED <<items, selectionMode, loaderConfigured, anchorId, selectedIds, focusedId, dndVars, convVars, ownerVars, groupVars>>

\* ------------------------------------- hooks/use-tree-keyboard.ts -------
currentIndex == IF focusedId # NULL THEN findIndex(visibleNodes, focusedId) ELSE 0

\* setFocused(id), then selectRange(id) when the shift key is held in
\* multiple mode: the tail of ArrowDown, ArrowUp, Home and End
focusAndExtend(id, shiftKey) ==
  /\ focusedId' = id
  /\ IF shiftKey /\ selectionMode = "multiple"
       THEN /\ selectedIds' = selectRange(selectionMode, selectedIds, visibleNodes,
                                          anchorId, id)
            /\ anchorId' \in anchorsAfterRange(selectionMode, anchorId, id)
       ELSE UNCHANGED <<selectedIds, anchorId>>

KeyArrowDown(shiftKey) ==
  /\ IF Len(visibleNodes) = 0
       THEN UNCHANGED <<focusedId, selectedIds, anchorId>>
       ELSE focusAndExtend(visibleNodes[Min(currentIndex + 1, Len(visibleNodes))].id,
                           shiftKey)
  /\ ev' = event(IF shiftKey THEN "ShiftArrowDown" ELSE "ArrowDown", focusedId)
  /\ calls' = NoCalls
  /\ UNCHANGED <<items, selectionMode, loaderConfigured, expandedIds,
                 dndVars, lazyVars, convVars, ownerVars, groupVars>>

KeyArrowUp(shiftKey) ==
  /\ IF Len(visibleNodes) = 0
       THEN UNCHANGED <<focusedId, selectedIds, anchorId>>
       ELSE focusAndExtend(visibleNodes[Max(currentIndex - 1, 1)].id, shiftKey)
  /\ ev' = event(IF shiftKey THEN "ShiftArrowUp" ELSE "ArrowUp", focusedId)
  /\ calls' = NoCalls
  /\ UNCHANGED <<items, selectionMode, loaderConfigured, expandedIds,
                 dndVars, lazyVars, convVars, ownerVars, groupVars>>

KeyArrowRight ==
  /\ IF currentIndex = 0
       THEN UNCHANGED <<expandedIds, focusedId>>
       ELSE LET currentNode == visibleNodes[currentIndex]
                nextIndex == currentIndex + 1
            IN  IF currentNode.isGroup /\ currentNode.id \notin expandedIds
                  THEN /\ expandedIds' = expand(expandedIds, currentNode.id)
                       /\ UNCHANGED focusedId
                ELSE IF /\ currentNode.isGroup
                        /\ nextIndex <= Len(visibleNodes)
                        /\ visibleNodes[nextIndex].parentId = currentNode.id
                  THEN /\ focusedId' = visibleNodes[nextIndex].id
                       /\ UNCHANGED expandedIds
                ELSE UNCHANGED <<expandedIds, focusedId>>
  /\ ev' = event("ArrowRight", focusedId)
  /\ calls' = NoCalls
  /\ UNCHANGED <<items, selectionMode, loaderConfigured, anchorId, selectedIds,
                 dndVars, lazyVars, convVars, ownerVars, groupVars>>

KeyArrowLeft ==
  /\ IF currentIndex = 0
       THEN UNCHANGED <<expandedIds, focusedId>>
       ELSE LET currentNode == visibleNodes[currentIndex]
            IN  IF currentNode.isGroup /\ currentNode.id \in expandedIds
                  THEN /\ expandedIds' = collapse(expandedIds, flatNodes, currentNode.id)
                       /\ UNCHANGED focusedId
                ELSE IF currentNode.parentId # NULL
                  THEN /\ focusedId' = currentNode.parentId
                       /\ UNCHANGED expandedIds
                ELSE UNCHANGED <<expandedIds, focusedId>>
  /\ ev' = event("ArrowLeft", focusedId)
  /\ calls' = NoCalls
  /\ UNCHANGED <<items, selectionMode, loaderConfigured, anchorId, selectedIds,
                 dndVars, lazyVars, convVars, ownerVars, groupVars>>

\* "*": expand(node.id) for every group sibling of the focused node.  Every
\* call goes through the setExpandedIds of this render, which applies the
\* updater to this render's expandedIds and stores the result: the last
\* call's result is the state after the handler.
RECURSIVE starLoop(_, _, _, _)
starLoop(flat, parentId, i, stored) ==
  IF i > Len(flat) THEN stored
  ELSE IF flat[i].parentId = parentId /\ flat[i].isGroup
    THEN starLoop(flat, parentId, i + 1, expand(expandedIds, flat[i].id))
  ELSE starLoop(flat, parentId, i + 1, stored)

KeyStar ==
  /\ IF currentIndex = 0
       THEN UNCHANGED expandedIds
       ELSE expandedIds' = starLoop(flatNodes, visibleNodes[currentIndex].parentId, 1, expandedIds)
  /\ ev' = event("*", focusedId)
  /\ calls' = NoCalls
  /\ UNCHANGED <<items, selectionMode, loaderConfigured, anchorId, selectedIds, focusedId,
                 dndVars, lazyVars, convVars, ownerVars, groupVars>>

KeyEnter ==
  /\ IF currentIndex = 0
       THEN UNCHANGED <<selectedIds, anchorId>>
       ELSE LET id == visibleNodes[currentIndex].id
            IN  /\ selectedIds' = select(selectionMode, selectedIds, id)
                /\ anchorId' = anchorAfterSelect(selectionMode, anchorId, id)
  /\ ev' = event("Enter", focusedId)
  /\ calls' = NoCalls
  /\ UNCHANGED <<items, selectionMode, loaderConfigured, expandedIds, focusedId,
                 dndVars, lazyVars, convVars, ownerVars, groupVars>>

KeySpace ==
  /\ IF currentIndex = 0
       THEN UNCHANGED <<selectedIds, anchorId>>
       ELSE LET id == visibleNodes[currentIndex].id
            IN  IF selectionMode = "multiple"
                  THEN /\ selectedIds' = toggleSelect(selectionMode, selectedIds, id)
                       /\ UNCHANGED anchorId
                  ELSE /\ selectedIds' = select(selectionMode, selectedIds, id)
                       /\ anchorId' = anchorAfterSelect(selectionMode, anchorId, id)
  /\ ev' = event("Space", focusedId)
  /\ calls' = NoCalls
  /\ UNCHANGED <<items, selectionMode, loaderConfigured, expandedIds, focusedId,
                 dndVars, lazyVars, convVars, ownerVars, groupVars>>

\* default case, Ctrl/Cmd+A: selectAll() in mode multiple; in the other modes
\* the key reaches neither selectAll nor the type-ahead branch
KeySelectAll ==
  /\ visibleNodes # <<>>
  /\ selectedIds' = IF selectionMode = "multiple"
                      THEN selectAll(selectionMode, selectedIds, visibleNodes)
                      ELSE selectedIds
  /\ ev' = event("CtrlA", focusedId)
  /\ calls' = NoCalls
  /\ UNCHANGED <<items, selectionMode, loaderConfigured, expandedIds, focusedId, anchorId,
                 dndVars, lazyVars, convVars, ownerVars, groupVars>>

\* ------------------------------------- components/tree-node.tsx --------
\* handleSelect, the `select` of a rendered row, called from a click with or
\* without the shift and ctrl/meta keys
HandleSelect(id, shiftKey, ctrlKey) ==
  /\ hasNode(visibleNodes, id)
  /\ IF selectionMode = "multiple" /\ shiftKey
       THEN /\ selectedIds' = selectRange(selectionMode, selectedIds, visibleNodes,
                                          anchorId, id)
            /\ anchorId' \in anchorsAfterRange(selectionMode, anchorId, id)
       ELSE IF selectionMode = "multiple" /\ ctrlKey
       THEN /\ selectedIds' = toggleSelect(selectionMode, selectedIds, id)
            /\ UNCHANGED anchorId
       ELSE /\ selectedIds' = select(selectionMode, selectedIds, id)
            /\ anchorId' = anchorAfterSelect(selectionMode, anchorId, id)
  /\ ev' = event(IF shiftKey THEN "shiftClick" ELSE IF ctrlKey THEN "ctrlClick" ELSE "click",
                 id)
  /\ calls' = NoCalls
  /\ UNCHANGED <<items, selectionMode, loaderConfigured, expandedIds, focusedId,
                 dndVars, lazyVars, convVars, ownerVars, groupVars>>

\* toggleSelect of the tree context, called by a row of the caller's own
ToggleSelect(id) ==
  /\ hasNode(visibleNodes, id)
  /\ selectedIds' = toggleSelect(selectionMode, selectedIds, id)
  /\ ev' = event("toggleSelect", id)
  /\ calls' = NoCalls
  /\ UNCHANGED <<items, selectionMode, loaderConfigured, anchorId, expandedIds, focusedId,
                 dndVars, lazyVars, convVars, ownerVars, groupVars>>

\* ------------------------------------------- lib/tree-utils.ts ----------
\* Math.round(offsetX / indentWidth): the nearest integer, halves upwards
round(offsetX, indentWidth) == (2 * offsetX + indentWidth) \div (2 * indentWidth)

\* a walk that takes the first node of the sequence at the given depth
walkBackFirst(visible, i, depth) ==
  IF \E k \in 1..i : visible[k].depth = depth
    THEN visible[CHOOSE k \in 1..i : /\ visible[k].depth = depth
                                     /\ \A j \in 1..(k - 1) : visible[j].depth # depth].id
    ELSE NULL

\* getProjection: the walk back from overNode to a node at the given depth
RECURSIVE walkBack(_, _, _)
walkBack(visible, i, depth) ==
  IF i < 1 THEN NULL
  ELSE IF visible[i].depth = depth THEN visible[i].id
  ELSE walkBack(visible, i - 1, depth)

\* a projection that is floored at 0 but not clamped by the neighbours
getProjectionUnclamped(flat, visible, active, over, offsetX, indentWidth) ==
  LET overIndex == findIndex(visible, over)
  IN  IF overIndex = 0 THEN [depth |-> 0, parentId |-> NULL]
      ELSE
        LET overNode == visible[overIndex]
            baseDepth == IF hasNode(flat, active) THEN nodeOf(flat, active).depth
                                                  ELSE overNode.depth
            projDepth == Max(0, baseDepth + round(offsetX, indentWidth))
        IN  [depth |-> projDepth,
             parentId |-> IF projDepth > 0
                            THEN walkBack(visible, overIndex, projDepth - 1)
                            ELSE NULL]

getProjection(flat, visible, active, over, offsetX, indentWidth) ==
  LET overIndex == findIndex(visible, over)
  IN  IF overIndex = 0 THEN [depth |-> 0, parentId |-> NULL]
      ELSE
        LET overNode == visible[overIndex]
            baseDepth == IF hasNode(flat, active) THEN nodeOf(flat, active).depth
                                                  ELSE overNode.depth
            depthDelta == round(offsetX, indentWidth)
            projDepth == Max(0, baseDepth + depthDelta)
            maxDepth == IF overNode.isGroup THEN overNode.depth + 1 ELSE overNode.depth
            minDepth == IF overIndex + 1 <= Len(visible) THEN visible[overIndex + 1].depth
                                                         ELSE 0
            clampedDepth == Min(Max(projDepth, minDepth), maxDepth)
        IN  [depth |-> clampedDepth,
             parentId |-> IF clampedDepth > 0
                            THEN walkBack(visible, overIndex, clampedDepth - 1)
                            ELSE NULL]

\* ------------------------------------- hooks/use-tree-dnd.ts ------------
\* TreeView prop indentationWidth (default)
IndentationWidth == 20

\* the id of a droppable under the provider that is not a node of the tree
ForeignId == MaxNodes + 1

\* pointer offsets of a drag: one level to either side, or none
Offsets == {0 - IndentationWidth, 0, IndentationWidth}

elements(arr) == {arr[k] : k \in DOMAIN arr}

\* roots plus their descendants
withDescendants(flat, roots) ==
  roots \cup UNION {elements(getDescendantIds(flat, r)) : r \in roots}

\* handleDragOver: movingIds, for the selection of the instance
movingIdsOf(mode, selected, sourceId) ==
  IF mode = "multiple" /\ sourceId \in selected THEN selected ELSE {sourceId}

movingIds(sourceId) == movingIdsOf(selectionMode, selectedIds, sourceId)

\* handleDragEnd: rootIdsToMove, for the selection of the instance
rootIdsOf(mode, selected, flat, sourceId) ==
  IF mode = "multiple" /\ sourceId \in selected /\ Cardinality(selected) > 1
    THEN selected \ UNION {elements(getDescendantIds(flat, r)) : r \in selected}
    ELSE {sourceId}

rootIdsToMoveSourceOnly(flat, sourceId) == {sourceId}

rootIdsToMove(flat, sourceId) == rootIdsOf(selectionMode, selectedIds, flat, sourceId)

\* the cycle guard of handleDragOver and handleDragEnd
wouldCycleNever(parentId, allIdsToMove) == FALSE

wouldCycle(parentId, allIdsToMove) == parentId # NULL /\ parentId \in allIdsToMove

\* handleDragEnd: the insertion point for position "after", past the target
\* and everything deeper that follows it
RECURSIVE skipDeeper(_, _, _)
skipDeeper(remaining, i, depth) ==
  IF i <= Len(remaining) /\ remaining[i].depth > depth
    THEN skipDeeper(remaining, i + 1, depth)
    ELSE i - 1

\* handleDragEnd: the flat array `result`
moveResultOf(roots, flat, sourceId, targetId, position, depthRef, parentRef) ==
  LET allIdsToMove == withDescendants(flat, roots)
      draggedNodes == SelectSeq(flat, LAMBDA n : n.id \in allIdsToMove)
      remaining == removeNodes(flat, roots)
      depthDiff == (IF depthRef = NullDepth THEN 0 ELSE depthRef) - nodeOf(flat, sourceId).depth
      updatedDragged ==
        [i \in DOMAIN draggedNodes |->
           IF draggedNodes[i].id \in roots
             THEN [draggedNodes[i] EXCEPT !.depth = @ + depthDiff, !.parentId = parentRef]
             ELSE [draggedNodes[i] EXCEPT !.depth = @ + depthDiff]]
      targetFlatIdx == findIndex(remaining, targetId)
      insertAt == IF targetFlatIdx = 0 THEN Len(remaining)
                  ELSE IF position = "inside" THEN targetFlatIdx
                  ELSE skipDeeper(remaining, targetFlatIdx + 1, remaining[targetFlatIdx].depth)
  IN  SubSeq(remaining, 1, insertAt) \o updatedDragged
        \o SubSeq(remaining, insertAt + 1, Len(remaining))

\* a result with the moved nodes in front of the remaining ones
moveResultInFront(flat, sourceId, targetId, position, depthRef, parentRef) ==
  LET roots == rootIdsToMove(flat, sourceId)
      allIdsToMove == withDescendants(flat, roots)
      result == moveResultOf(roots, flat, sourceId, targetId, position, depthRef, parentRef)
  IN  SelectSeq(result, LAMBDA n : n.id \in allIdsToMove)
        \o SelectSeq(result, LAMBDA n : n.id \notin allIdsToMove)

moveResult(flat, sourceId, targetId, position, depthRef, parentRef) ==
  moveResultOf(rootIdsToMove(flat, sourceId), flat, sourceId, targetId, position,
               depthRef, parentRef)

\* handleDragStart: the drag library starts a drag of a rendered row
HandleDragStart(id) ==
  /\ activeId = NULL
  /\ drags < MaxDrags
  /\ hasNode(visibleNodes, id)
  /\ activeId' = id
  /\ drags' = drags + 1
  /\ offsetRef' = 0
  /\ opTarget' = NULL
  /\ ev' = event("dragStart", id)
  /\ calls' = NoCalls
  /\ UNCHANGED <<treeVars, lazyVars, convVars, ownerVars, groupVars, overId, dropPosition, projectedDepth,
                 projectedParentId, dropPositionRef, projectedDepthRef,
                 projectedParentIdRef, hoverTimerRef, hoverTargetRef>>

\* handleDragOver: the hovered node is an expanded group without visible children
isExpandedEmptyGroupNever(visible, expanded, targetNode) == FALSE

isExpandedEmptyGroup(visible, expanded, targetNode) ==
  /\ targetNode.isGroup
  /\ targetNode.id \in expanded
  /\ ~\E i \in DOMAIN visible : visible[i].parentId = targetNode.id

\* handleDragOver: the pointer is over the row `target` (NULL: over no row)
\* at horizontal offset x from where the drag started
HandleDragOver(flat, visible, target, x) ==
  /\ target = NULL \/ hasNode(visible, target) \/ target = ForeignId
  /\ opTarget' = target
  /\ ev' = [event("dragOver", activeId) EXCEPT !.target = target]
  /\ calls' = NoCalls
  /\ UNCHANGED <<treeVars, lazyVars, convVars, ownerVars, groupVars, activeId, drags>>
  /\ IF target = NULL
       THEN /\ overId' = NULL
            /\ dropPosition' = "null"
            /\ UNCHANGED <<projectedDepth, projectedParentId, dropPositionRef,
                           projectedDepthRef, projectedParentIdRef, hoverTimerRef,
                           hoverTargetRef, offsetRef>>
       ELSE
         LET projection == getProjection(flat, visible, activeId, target,
                                         x, IndentationWidth)
             allIdsToMove == withDescendants(flat, movingIds(activeId))
             found == hasNode(flat, target)
             targetNode == nodeOf(flat, target)
             emptyGroup == found /\ isExpandedEmptyGroup(visible, expandedIds, targetNode)
             position ==
               IF targetNode.isGroup /\ (projection.parentId = target \/ emptyGroup)
                 THEN "inside" ELSE "after"
             corrected == emptyGroup /\ position = "inside"
         IN  /\ offsetRef' = x
             /\ IF wouldCycle(projection.parentId, allIdsToMove)
                  THEN /\ overId' = NULL
                       /\ dropPosition' = "null"
                       /\ UNCHANGED <<projectedDepth, projectedParentId, dropPositionRef,
                                      projectedDepthRef, projectedParentIdRef,
                                      hoverTimerRef, hoverTargetRef>>
                  ELSE /\ overId' = target
                       /\ projectedDepth' = IF corrected THEN targetNode.depth + 1
                                                         ELSE projection.depth
                       /\ projectedParentId' = IF corrected THEN target
                                                            ELSE projection.parentId
                       /\ projectedDepthRef' = projectedDepth'
                       /\ projectedParentIdRef' = projectedParentId'
                       /\ IF found
                            THEN dropPosition' = position /\ dropPositionRef' = position
                            ELSE UNCHANGED <<dropPosition, dropPositionRef>>
                       /\ IF target # hoverTargetRef
                            THEN /\ hoverTargetRef' = target
                                 /\ hoverTimerRef' =
                                      IF /\ found
                                         /\ targetNode.isGroup
                                         /\ target \notin expandedIds
                                         /\ target # activeId
                                        THEN target ELSE NULL
                            ELSE UNCHANGED <<hoverTimerRef, hoverTargetRef>>

\* the drag library reports the pointer over a row of the tree, or over none,
\* to the handleDragOver of the current render (its flatNodes, visibleNodes)
DragOver ==
  /\ activeId # NULL
  /\ LET flat == flatNodes
         visible == getVisibleNodes(flat, expandedIds)
     IN  \E target \in idsOf(visible) \cup {NULL, ForeignId}, x \in Offsets :
           HandleDragOver(flat, visible, target, x)

\* the auto-expand timer armed by handleDragOver fires: expand(targetId).
\* The expansion set changes only here while a drag runs, so the expand the
\* timer closed over sees the current one.
HoverTimer ==
  /\ hoverTimerRef # NULL
  /\ expandedIds' = expand(expandedIds, hoverTimerRef)
  /\ hoverTimerRef' = NULL
  /\ ev' = event("hoverExpand", hoverTimerRef)
  /\ calls' = NoCalls
  /\ UNCHANGED <<items, selectionMode, loaderConfigured, anchorId, selectedIds, focusedId,
                 lazyVars, convVars, ownerVars, groupVars, activeId, overId, dropPosition, projectedDepth,
                 projectedParentId, dropPositionRef, projectedDepthRef,
                 projectedParentIdRef, hoverTargetRef, offsetRef, opTarget, drags>>

\* handleDragEnd: resetState, with the timer cleared at the top of the handler
resetStateKeepProjection ==
  /\ activeId' = NULL /\ overId' = NULL /\ dropPosition' = "null"
  /\ dropPositionRef' = "null" /\ projectedDepthRef' = NullDepth
  /\ projectedParentIdRef' = NULL
  /\ hoverTimerRef' = NULL /\ hoverTargetRef' = NULL
  /\ UNCHANGED <<projectedDepth, projectedParentId>>

resetState ==
  /\ activeId' = NULL /\ overId' = NULL /\ dropPosition' = "null"
  /\ projectedDepth' = NullDepth /\ projectedParentId' = NULL
  /\ dropPositionRef' = "null" /\ projectedDepthRef' = NullDepth
  /\ projectedParentIdRef' = NULL
  /\ hoverTimerRef' = NULL /\ hoverTargetRef' = NULL

\* handleDragEnd: the drag library ends the drag over its current target.
\* The caller applies the tree it is handed (onItemsChange = setItems);
\* `allowed` is what canDrop answers when it is asked (true when the prop
\* canDrop is not given).
HandleDragEnd(canceled, allowed) ==
  LET flat == flatNodes
      missing == canceled \/ opTarget = NULL
                   \/ ~hasNode(flat, activeId) \/ ~hasNode(flat, opTarget)
  IN
  /\ activeId # NULL
  /\ resetState
  /\ opTarget' = NULL
  /\ ev' = [event("dragEnd", activeId) EXCEPT !.target = opTarget, !.canceled = canceled,
                                              !.vetoed = ~missing /\ ~allowed]
  /\ UNCHANGED <<selectionMode, loaderConfigured, anchorId, expandedIds, selectedIds, focusedId,
                 lazyVars, convVars, ownerVars, groupVars, offsetRef, drags>>
  /\ IF missing \/ ~allowed
       THEN /\ calls' = NoCalls
            /\ UNCHANGED items
       ELSE
         LET targetNode == nodeOf(flat, opTarget)
             dragEvent ==
               [source |-> activeId, target |-> opTarget,
                position |-> IF dropPositionRef = "null" THEN "after" ELSE dropPositionRef,
                projectedDepth |-> IF projectedDepthRef = NullDepth THEN targetNode.depth
                                                                    ELSE projectedDepthRef]
             allIdsToMove == withDescendants(flat, rootIdsToMove(flat, activeId))
             result == moveResult(flat, activeId, opTarget, dropPositionRef,
                                  projectedDepthRef, projectedParentIdRef)
             built == buildTree(result)
         IN  IF wouldCycle(projectedParentIdRef, allIdsToMove)
               THEN /\ calls' = NoCalls
                    /\ UNCHANGED items
               ELSE /\ items' = built
                    /\ calls' = [NoCalls EXCEPT !.itemsChange = <<built>>,
                                                !.buildTree = <<result>>,
                                                !.dragEnd = <<dragEvent>>]

\* --------------------------------- drag and drop ------------------------
EmptyGroup == <<Some(TRUE), TRUE>>

emptyGroups(nodes) ==
  LET flat == flattenTree(nodes, NULL, 0)
  IN  {flat[i].id : i \in {j \in DOMAIN flat : flat[j].isGroup /\ ~hasChildren(flat, flat[j])}}

\* trees of MaxNodes nodes whose childless nodes are leaves or empty groups
DndTrees ==
  {t \in Forests(MaxNodes, {PlainLeaf, EmptyGroup}, {Undefined}) :
     Cardinality(emptyGroups(t)) <= MaxEmptyGroups}

\* A selection of one node moves like no selection, and single mode like
\* multiple mode with nothing selected: the drags start with nothing selected
\* in single mode or with two or more nodes selected in multiple mode.
InitDnd ==
  /\ items \in DndTrees
  /\ selectionMode \in {"single", "multiple"}
  /\ expandedIds \in SUBSET {flatNodes[i].id : i \in {j \in DOMAIN flatNodes : flatNodes[j].isGroup}}
  /\ selectedIds \in IF selectionMode = "multiple"
                        THEN {S \in SUBSET idsOf(flatNodes) : Cardinality(S) > 1}
                        ELSE {{}}
  /\ loaderConfigured = FALSE
  /\ focusedId = NULL /\ anchorId = NULL
  /\ IdleDnd /\ IdleLazy /\ IdleConv /\ IdleObs /\ IdleGroup /\ IdleOwner

NextDnd ==
  \/ \E id \in idsOf(flatNodes) : HandleDragStart(id)
  \/ DragOver
  \/ HoverTimer
  \/ \E canceled, allowed \in BOOLEAN : HandleDragEnd(canceled, allowed)

SpecDnd == InitDnd /\ [][NextDnd]_vars

\* ------------------------- instances under a TreeViewDndContext ---------
\* What the coordinator reaches of an instance through its registration, and
\* the instance's own drag session.  The fields activeId .. projectedParentId
\* and expandedIds are the React state as the handlers have set it; `shown`
\* is the state of the last render, which is what dndHandlersRef.current, the
\* getters of the registration hold.  The instances keep the default
\* selectionMode, have no canDrop and have expandOnDragHover switched off, so
\* that their expansion sets stay as they are and no timer is armed; the
\* offset a handler reads from offsetRef is the one it has just written.
shownOf(reg) ==
  [overId |-> reg.overId,
   dropPosition |-> reg.dropPosition, projectedDepth |-> reg.projectedDepth,
   projectedParentId |-> reg.projectedParentId]

newRegistration(nodes, expanded) ==
  [items |-> nodes, selectionMode |-> "single", selectedIds |-> {},
   expandedIds |-> expanded,
   activeId |-> NULL, overId |-> NULL, dropPosition |-> "null",
   projectedDepth |-> NullDepth, projectedParentId |-> NULL,
   shown |-> [overId |-> NULL, dropPosition |-> "null",
              projectedDepth |-> NullDepth, projectedParentId |-> NULL],
   dropPositionRef |-> "null", projectedDepthRef |-> NullDepth,
   projectedParentIdRef |-> NULL,
   consumed |-> NoProjection, itemsChange |-> <<>>, dragEnd |-> <<>>]

\* flatNodesRef.current, and the visibleNodes of the last render
regFlatNodes(reg) == flattenTree(reg.items, NULL, 0)
regVisibleNodes(reg) == getVisibleNodes(regFlatNodes(reg), reg.expandedIds)

\* reg.handleDragStart(event)
regHandleDragStart(reg, source) ==
  IF source = NULL \/ ~hasNode(regFlatNodes(reg), source) THEN reg
  ELSE [reg EXCEPT !.activeId = source]

\* reg.handleDragOver(event)
regHandleDragOver(reg, source, target, x) ==
  IF source = NULL \/ target = NULL
    THEN [reg EXCEPT !.overId = NULL, !.dropPosition = "null"]
  ELSE
    LET flat == regFlatNodes(reg)
        expanded == reg.expandedIds
        visible == getVisibleNodes(flat, expanded)
        projection == getProjection(flat, visible, source, target, x, IndentationWidth)
        allIdsToMove ==
          withDescendants(flat, movingIdsOf(reg.selectionMode, reg.selectedIds, source))
        found == hasNode(flat, target)
        targetNode == nodeOf(flat, target)
        emptyGroup == found /\ isExpandedEmptyGroup(visible, expanded, targetNode)
        position ==
          IF targetNode.isGroup /\ (projection.parentId = target \/ emptyGroup)
            THEN "inside" ELSE "after"
        corrected == emptyGroup /\ position = "inside"
        depth == IF corrected THEN targetNode.depth + 1 ELSE projection.depth
        parent == IF corrected THEN target ELSE projection.parentId
        projected == [reg EXCEPT   !.overId = target,
                                   !.projectedDepth = depth,
                                   !.projectedParentId = parent,
                                   !.projectedDepthRef = depth,
                                   !.projectedParentIdRef = parent]
        positioned == IF found THEN [projected EXCEPT !.dropPosition = position,
                                                      !.dropPositionRef = position]
                               ELSE projected
    IN  IF wouldCycle(projection.parentId, allIdsToMove)
          THEN [reg EXCEPT !.overId = NULL, !.dropPosition = "null"]
          ELSE positioned

\* handleDragEnd: resetState
regResetState(reg) ==
  [reg EXCEPT !.activeId = NULL, !.overId = NULL, !.dropPosition = "null",
              !.projectedDepth = NullDepth, !.projectedParentId = NULL,
              !.dropPositionRef = "null", !.projectedDepthRef = NullDepth,
              !.projectedParentIdRef = NULL]

\* reg.handleDragEnd(event); the caller applies the tree it is handed
regHandleDragEnd(reg, source, target, canceled) ==
  LET flat == regFlatNodes(reg)
  IN  IF canceled \/ source = NULL \/ target = NULL
         \/ ~hasNode(flat, source) \/ ~hasNode(flat, target)
        THEN regResetState(reg)
      ELSE
        LET targetNode == nodeOf(flat, target)
            dragEvent ==
              [source |-> source, target |-> target,
               position |-> IF reg.dropPositionRef = "null" THEN "after"
                                                            ELSE reg.dropPositionRef,
               projectedDepth |-> IF reg.projectedDepthRef = NullDepth
                                    THEN targetNode.depth ELSE reg.projectedDepthRef]
            roots == rootIdsOf(reg.selectionMode, reg.selectedIds, flat, source)
            result == moveResultOf(roots, flat, source, target, reg.dropPositionRef,
                                   reg.projectedDepthRef, reg.projectedParentIdRef)
            built == buildTree(result)
        IN  IF wouldCycle(reg.projectedParentIdRef, withDescendants(flat, roots))
              THEN regResetState(reg)
              ELSE [regResetState(reg) EXCEPT
                      !.items = built,
                      !.itemsChange = Append(@, built),
                      !.dragEnd = Append(@, dragEvent),
                      !.consumed = [dropPosition |-> reg.dropPositionRef,
                                    projectedDepth |-> reg.projectedDepthRef,
                                    projectedParentId |-> reg.projectedParentIdRef]]

\* ------------------------------------- TreeViewDndContext ----------------
\* findOwnerTree: the first registered instance whose flat nodes hold the id
RECURSIVE findOwnerFrom(_, _, _)
findOwnerFrom(regs, nodeId, i) ==
  IF i > Len(RegistrationOrder) THEN NoTree
  ELSE IF hasNode(regFlatNodes(regs[RegistrationOrder[i]]), nodeId)
    THEN RegistrationOrder[i]
  ELSE findOwnerFrom(regs, nodeId, i + 1)

findOwnerTreeFirst(regs, nodeId) == RegistrationOrder[1]

findOwnerTree(regs, nodeId) == findOwnerFrom(regs, nodeId, 1)

\* the ids of the rows that are rendered under the shared provider
renderedIds(regs) == UNION {idsOf(regVisibleNodes(regs[t])) : t \in TreeIds}

\* TreeViewDndContext.handleDragStart
GroupDragStart(sourceId) ==
  /\ operation.source = NULL
  /\ drags < MaxDrags
  /\ sourceId \in renderedIds(registrationsRef)
  /\ LET owner == findOwnerTree(registrationsRef, sourceId)
     IN  registrationsRef' =
           IF owner = NoTree THEN registrationsRef
           ELSE [registrationsRef EXCEPT ![owner] = regHandleDragStart(@, sourceId)]
  /\ operation' = [source |-> sourceId, target |-> NULL]
  /\ drags' = drags + 1
  /\ groupEv' = [NoGroupEvent EXCEPT !.type = "start"]
  /\ UNCHANGED <<lastOverTreeRef, treeVars, lazyVars, convVars, ownerVars, obsVars,
                 activeId, overId, dropPosition, projectedDepth, projectedParentId,
                 dropPositionRef, projectedDepthRef, projectedParentIdRef,
                 hoverTimerRef, hoverTargetRef, offsetRef, opTarget>>

\* TreeViewDndContext.handleDragOver: the pointer is over the row or the
\* droppable `target` (NULL: over none) at horizontal offset x
GroupDragOver(target, x) ==
  /\ operation.source # NULL
  /\ target \in renderedIds(registrationsRef) \cup {NULL, ForeignId}
  /\ LET owner == IF target = NULL THEN NoTree
                                   ELSE findOwnerTree(registrationsRef, target)
         leaving == owner # NoTree /\ lastOverTreeRef # NoTree /\ lastOverTreeRef # owner
         afterClear ==
           IF leaving
             THEN [registrationsRef EXCEPT
                     ![lastOverTreeRef] = regHandleDragOver(@, operation.source, NULL, x)]
             ELSE registrationsRef
         afterOver ==
           IF owner = NoTree THEN afterClear
           ELSE [afterClear EXCEPT
                   ![owner] = regHandleDragOver(@, operation.source, target, x)]
     IN  /\ registrationsRef' = afterOver
         /\ lastOverTreeRef' = IF owner = NoTree THEN lastOverTreeRef ELSE owner
         /\ groupEv' =
              [groupEv EXCEPT
                 !.type = "over",
                 !.left = IF leaving THEN lastOverTreeRef ELSE NoTree,
                 !.over = IF owner # NoTree /\ registrationsRef'[owner].overId = target
                            THEN [@ EXCEPT ![owner] =
                                    [dropPosition |-> registrationsRef'[owner].dropPosition,
                                     projectedDepth |-> registrationsRef'[owner].projectedDepth,
                                     projectedParentId |->
                                       registrationsRef'[owner].projectedParentId]]
                            ELSE @]
  /\ operation' = [operation EXCEPT !.target = target]
  /\ UNCHANGED <<treeVars, dndVars, lazyVars, convVars, ownerVars, obsVars>>

\* TreeViewDndContext.handleDragEnd
GroupDragEnd(canceled) ==
  /\ operation.source # NULL
  /\ LET sourceId == operation.source
         targetId == operation.target
         sourceTree == findOwnerTree(registrationsRef, sourceId)
         targetTree == findOwnerTree(registrationsRef, targetId)
         plain == [canceled |-> canceled, crossTree |-> Undefined]
     IN  IF targetId = NULL
           THEN /\ registrationsRef' =
                     [t \in TreeIds |->
                        regHandleDragEnd(registrationsRef[t], sourceId, targetId, TRUE)]
                /\ groupEv' = [groupEv EXCEPT !.type = "end", !.canceled = canceled,
                                              !.source = sourceId, !.target = targetId,
                                              !.ended = <<plain>>]
         ELSE IF sourceTree # NoTree /\ targetTree # NoTree /\ sourceTree = targetTree
           THEN /\ registrationsRef' =
                     [registrationsRef EXCEPT
                        ![sourceTree] = regHandleDragEnd(@, sourceId, targetId, canceled)]
                /\ groupEv' = [groupEv EXCEPT !.type = "end", !.canceled = canceled,
                                              !.source = sourceId, !.target = targetId,
                                              !.ended = <<plain>>]
         ELSE IF sourceTree # NoTree /\ targetTree # NoTree
           THEN LET crossTree ==
                      [sourceTreeId |-> sourceTree, targetTreeId |-> targetTree,
                       dropPosition |-> registrationsRef[targetTree].shown.dropPosition,
                       projectedDepth |-> registrationsRef[targetTree].shown.projectedDepth,
                       projectedParentId |->
                         registrationsRef[targetTree].shown.projectedParentId]
                IN  /\ registrationsRef' =
                         [t \in TreeIds |->
                            IF t \in {sourceTree, targetTree}
                              THEN regHandleDragEnd(registrationsRef[t], sourceId,
                                                    targetId, TRUE)
                              ELSE registrationsRef[t]]
                    /\ groupEv' = [groupEv EXCEPT
                                     !.type = "end", !.canceled = canceled,
                                     !.source = sourceId, !.target = targetId,
                                     !.ended = <<[canceled |-> canceled,
                                                  crossTree |-> Some(crossTree)]>>]
         ELSE /\ UNCHANGED registrationsRef
              /\ groupEv' = [groupEv EXCEPT !.type = "end", !.canceled = canceled,
                                              !.source = sourceId, !.target = targetId,
                                            !.ended = <<plain>>]
  /\ lastOverTreeRef' = NoTree
  /\ operation' = [source |-> NULL, target |-> NULL]
  /\ UNCHANGED <<treeVars, dndVars, lazyVars, convVars, ownerVars, obsVars>>

\* React renders an instance whose state the handlers have changed
GroupRender(t) ==
  /\ registrationsRef[t].shown # shownOf(registrationsRef[t])
  /\ registrationsRef' =
       [registrationsRef EXCEPT ![t] = [@ EXCEPT !.shown = shownOf(@)]]
  /\ groupEv' = [groupEv EXCEPT !.type = "render"]
  /\ UNCHANGED <<lastOverTreeRef, operation, treeVars, dndVars, lazyVars, convVars, ownerVars,
                 obsVars>>

\* --------------------------------- shared drag --------------------------
\* the ids of a nested tree moved up by k
RECURSIVE shiftIds(_, _)
shiftIds(nodes, k) ==
  [i \in DOMAIN nodes |->
     [nodes[i] EXCEPT !.id = @ + k,
                      !.children = IF @ = Undefined THEN Undefined
                                   ELSE Some(shiftIds(@[1], k))]]

\* the trees of an instance of n nodes
GroupTrees(n) ==
  {t \in Forests(n, {PlainLeaf, EmptyGroup}, {Undefined}) :
     Cardinality(emptyGroups(t)) <= MaxEmptyGroups}

groupIds(nodes) ==
  LET flat == flattenTree(nodes, NULL, 0)
  IN  {flat[i].id : i \in {j \in DOMAIN flat : flat[j].isGroup}}

\* two instances share the nodes: the first has all but one of them, the
\* second the remaining ones, with ids above ForeignId
InitShared ==
  /\ \E a \in GroupTrees(MaxNodes - 1), b \in GroupTrees(MaxNodes - 2) :
       \E ea \in SUBSET groupIds(a), eb \in SUBSET groupIds(shiftIds(b, ForeignId)) :
         registrationsRef = [t \in TreeIds |->
                               IF t = "A" THEN newRegistration(a, ea)
                                          ELSE newRegistration(shiftIds(b, ForeignId), eb)]
  /\ lastOverTreeRef = NoTree
  /\ operation = [source |-> NULL, target |-> NULL]
  /\ groupEv = NoGroupEvent
  /\ items = <<>> /\ expandedIds = {}
  /\ IdleTree /\ IdleDnd /\ IdleLazy /\ IdleConv /\ IdleObs /\ IdleOwner

NextShared ==
  \/ \E id \in renderedIds(registrationsRef) : GroupDragStart(id)
  \/ \E target \in renderedIds(registrationsRef) \cup {NULL, ForeignId}, x \in Offsets :
       GroupDragOver(target, x)
  \/ \E canceled \in BOOLEAN : GroupDragEnd(canceled)
  \/ \E t \in TreeIds : GroupRender(t)

SpecShared == InitShared /\ [][NextShared]_vars

\* --------------------------------- selection ----------------------------
SelectionModes == {"none", "single", "multiple"}

InitSelect ==
  /\ items \in PlainTrees
  /\ selectionMode \in SelectionModes
  /\ expandedIds = idsOf(flatNodes)
  /\ loaderConfigured = FALSE
  /\ selectedIds = {} /\ focusedId = NULL /\ anchorId = NULL
  /\ IdleDnd /\ IdleLazy /\ IdleConv /\ IdleObs /\ IdleGroup /\ IdleOwner

NextSelect ==
  \/ \E id \in idsOf(flatNodes), shiftKey, ctrlKey \in BOOLEAN :
        HandleSelect(id, shiftKey, ctrlKey)
  \/ \E id \in idsOf(flatNodes) : ToggleSelect(id)
  \/ KeyEnter
  \/ KeySpace
  \/ KeySelectAll
  \/ \E shiftKey \in BOOLEAN : KeyArrowDown(shiftKey)
  \/ \E shiftKey \in BOOLEAN : KeyArrowUp(shiftKey)

SpecSelect == InitSelect /\ [][NextSelect]_vars

\* --------------------------------- expansion and lazy loading -----------
LazyLeaf == <<Some(TRUE), FALSE>>

\* trees whose childless nodes are leaves or lazy groups; loads add nodes to
\* them, so they start one node short of MaxNodes
LazyTrees == Forests(MaxNodes - 1, {PlainLeaf, LazyLeaf}, {Undefined})

InitExpand ==
  /\ items \in LazyTrees
  /\ loaderConfigured \in BOOLEAN
  /\ expandedIds \in SUBSET idsOf(flatNodes)
  /\ selectionMode = "none" /\ selectedIds = {} /\ focusedId = NULL /\ anchorId = NULL
  /\ IdleDnd /\ IdleLazy /\ IdleConv /\ IdleObs /\ IdleGroup /\ IdleOwner

NextExpand ==
  \/ \E id \in idsOf(flatNodes) : ToggleExpand(id)
  \/ \E p \in pending : LoadResolve(p)
  \/ \E p \in pending : LoadReject(p)
  \/ KeyArrowDown(FALSE)
  \/ KeyArrowUp(FALSE)
  \/ KeyArrowRight
  \/ KeyArrowLeft
  \/ KeyStar

SpecExpand == InitExpand /\ [][NextExpand]_vars

\* ------------------------------- lazy loads whose callbacks may throw ----
\* the loader call for node id settles, in any of the ways it can
Settle(id) ==
  \E p \in pending :
    /\ p.id = id
    /\ \/ LoadResolve(p)
       \/ LoadReject(p)
       \/ \E resolved, stored \in BOOLEAN : LoadSettleThrowing(p, resolved, stored)

NextLoad ==
  \/ NextExpand
  \/ \E p \in pending : \E resolved, stored \in BOOLEAN : LoadSettleThrowing(p, resolved, stored)

\* every loader call settles: a promise the loader returned does not stay
\* pending forever
SpecLoad ==
  /\ InitExpand
  /\ [][NextLoad]_vars
  /\ \A id \in NodeIds : WF_vars(Settle(id))

\* ------------------------------------------------ converters applied ----
InitConvert ==
  /\ items \in AllTrees
  /\ expandedIds \in SUBSET NodeIds
  /\ IdleTree /\ IdleDnd /\ IdleLazy /\ IdleConv /\ IdleObs /\ IdleGroup /\ IdleOwner

Flatten ==
  /\ cStep = "input"
  /\ cFlat' = flattenTree(items, NULL, 0)
  /\ cStep' = "flat"
  /\ UNCHANGED <<cBuilt, cVisible, cDescendants, treeVars, dndVars, lazyVars, obsVars,
                 groupVars, ownerVars>>

Build ==
  /\ cStep = "flat"
  /\ cBuilt' = buildTree(cFlat)
  /\ cStep' = "built"
  /\ UNCHANGED <<cFlat, cVisible, cDescendants, treeVars, dndVars, lazyVars, obsVars,
                 groupVars, ownerVars>>

Visible ==
  /\ cStep = "flat"
  /\ cVisible' = getVisibleNodes(cFlat, expandedIds)
  /\ cStep' = "visible"
  /\ UNCHANGED <<cFlat, cBuilt, cDescendants, treeVars, dndVars, lazyVars, obsVars, groupVars,
                 ownerVars>>

NextConvert == Flatten \/ Build \/ Visible

SpecConvert == InitConvert /\ [][NextConvert]_vars

\* ------------------------------------------------ flat arrays edited ----
\* ids of the nodes a caller inserts
NewId == MaxNodes + 1
NewChildId == MaxNodes + 2

\* FlatTreeNode of a node the caller inserts; its index is the caller's guess
newFlatNode(id, parentId, depth) ==
  [id |-> id, data |-> DataOf(id), isGroup |-> FALSE, childrenLoaded |-> FALSE,
   parentId |-> parentId, depth |-> depth, index |-> 0]

\* the arrays a caller inserts under parentId: one node, or a node and its child
NodesToInsert(flat, parentId) ==
  LET depth == IF parentId = NULL THEN 0
               ELSE flat[findIndex(flat, parentId)].depth + 1
      node == newFlatNode(NewId, parentId, depth)
  IN  {<<node>>,
       <<[node EXCEPT !.isGroup = TRUE, !.childrenLoaded = TRUE],
         newFlatNode(NewChildId, NewId, depth + 1)>>}

InitEdit ==
  /\ items \in AllTrees
  /\ expandedIds = {}
  /\ IdleTree /\ IdleDnd /\ IdleLazy /\ IdleConv /\ IdleObs /\ IdleGroup /\ IdleOwner

\* removeNodes(flatNodes, ids)
Remove(ids) ==
  /\ cStep = "flat"
  /\ cFlat' = removeNodes(cFlat, ids)
  /\ cStep' = "removed"
  /\ UNCHANGED <<cBuilt, cVisible, cDescendants, treeVars, dndVars, lazyVars, obsVars,
                 groupVars, ownerVars>>

\* insertNodes(flatNodes, nodesToInsert, targetParentId, targetIndex)
Insert(nodesToInsert, targetParentId, targetIndex) ==
  /\ cStep \in {"flat", "removed"}
  /\ cFlat' = insertNodes(cFlat, nodesToInsert, targetParentId, targetIndex)
  /\ cStep' = "inserted"
  /\ UNCHANGED <<cBuilt, cVisible, cDescendants, treeVars, dndVars, lazyVars, obsVars,
                 groupVars, ownerVars>>

\* getDescendantIds(flatNodes, parentId)
Descendants(parentId) ==
  /\ cStep \in {"flat", "removed"}
  /\ cDescendants' = [parentId |-> parentId, ids |-> getDescendantIds(cFlat, parentId)]
  /\ cStep' = "descendants"
  /\ UNCHANGED <<cFlat, cBuilt, cVisible, treeVars, dndVars, lazyVars, obsVars, groupVars,
                 ownerVars>>

NextEdit ==
  \/ Flatten
  \/ \E parentId \in idsOf(cFlat) : Descendants(parentId)
  \/ \E ids \in SUBSET idsOf(cFlat) : ids # {} /\ Remove(ids)
  \/ \E targetParentId \in idsOf(cFlat) \cup {NULL}, targetIndex \in 0..MaxNodes :
       \E nodesToInsert \in NodesToInsert(cFlat, targetParentId) :
         Insert(nodesToInsert, targetParentId, targetIndex)

SpecEdit == InitEdit /\ [][NextEdit]_vars

\* ------------------------------- controlled and uncontrolled state ------
\* Two instances over the same items receive the same actions: the engine
\* owns expandedIds/selectedIds of the first (the variables expandedIds and
\* selectedIds), the caller owns those of the second (controlledTree) and
\* hands them back as props once it has applied the change callbacks.

\* Array.from(next); new Set(array) is elements(array)
arrayFrom(set) == SortedSeq(set)

\* const expandedIds = controlledExpandedIds ? new Set(...) : internalExpandedIds
currentIdsInternal(controlledIds, internalIds) == internalIds

currentIds(controlledIds, internalIds) ==
  IF controlledIds # Undefined THEN elements(controlledIds[1]) ELSE internalIds

\* setExpandedIds / setSelectedIds with a change callback configured: the
\* callback's argument and the internal state afterwards
setIds(controlledIds, internalIds, next) ==
  [callback |-> arrayFrom(next),
   internal |-> IF controlledIds = Undefined THEN next ELSE internalIds]

ExpansionActions == {"toggleExpand", "expand", "collapse"}
SelectionActions == {"select", "toggleSelect"}

\* the set an action hands to the setter, computed from the set of the render
updated(kind, mode, flat, prev, id) ==
  CASE kind = "toggleExpand" -> toggleExpand(prev, flat, id)
    [] kind = "expand" -> expand(prev, id)
    [] kind = "collapse" -> collapse(prev, flat, id)
    [] kind = "select" -> select(mode, prev, id)
    [] kind = "toggleSelect" -> toggleSelect(mode, prev, id)

InitOwner ==
  /\ items \in PlainTrees
  /\ selectionMode \in SelectionModes
  /\ expandedIds \in SUBSET idsOf(flatNodes)
  /\ selectedIds = {}
  /\ controlledTree = [expandedIds |-> Some(arrayFrom(expandedIds)),
                       selectedIds |-> Some(<<>>),
                       internalExpandedIds |-> {}, internalSelectedIds |-> {},
                       pending |-> <<>>]
  /\ changes = NoChanges
  /\ loaderConfigured = FALSE /\ focusedId = NULL /\ anchorId = NULL
  /\ IdleDnd /\ IdleLazy /\ IdleConv /\ IdleObs /\ IdleGroup

\* toggleExpand(id), expand(id) or collapse(id) called on both instances
ExpansionAction(kind, id) ==
  /\ controlledTree.pending = <<>>
  /\ LET flat == flatNodes
         engine == setIds(Undefined, expandedIds,
                          updated(kind, selectionMode, flat, expandedIds, id))
         current == currentIds(controlledTree.expandedIds,
                               controlledTree.internalExpandedIds)
         owner == setIds(controlledTree.expandedIds,
                         controlledTree.internalExpandedIds,
                         updated(kind, selectionMode, flat, current, id))
     IN  /\ expandedIds' = engine.internal
         /\ controlledTree' =
              [controlledTree EXCEPT
                 !.internalExpandedIds = owner.internal,
                 !.pending = <<[prop |-> "expandedIds", ids |-> owner.callback]>>]
         /\ changes' = [engine |-> <<[prop |-> "expandedIds", ids |-> engine.callback]>>,
                        owner |-> <<[prop |-> "expandedIds", ids |-> owner.callback]>>,
                        action |-> kind]
  /\ UNCHANGED <<items, selectionMode, loaderConfigured, selectedIds, focusedId, anchorId,
                 dndVars, lazyVars, convVars, obsVars, groupVars>>

\* select(id) or toggleSelect(id) called on both instances; in mode none they
\* return before the setter
SelectionAction(kind, id) ==
  /\ controlledTree.pending = <<>>
  /\ LET engine == setIds(Undefined, selectedIds,
                          updated(kind, selectionMode, flatNodes, selectedIds, id))
         current == currentIds(controlledTree.selectedIds,
                               controlledTree.internalSelectedIds)
         owner == setIds(controlledTree.selectedIds,
                         controlledTree.internalSelectedIds,
                         updated(kind, selectionMode, flatNodes, current, id))
     IN  IF selectionMode = "none"
           THEN /\ changes' = [engine |-> <<>>, owner |-> <<>>, action |-> kind]
                /\ UNCHANGED <<selectedIds, controlledTree>>
           ELSE /\ selectedIds' = engine.internal
                /\ controlledTree' =
                     [controlledTree EXCEPT
                        !.internalSelectedIds = owner.internal,
                        !.pending = <<[prop |-> "selectedIds", ids |-> owner.callback]>>]
                /\ changes' =
                     [engine |-> <<[prop |-> "selectedIds", ids |-> engine.callback]>>,
                      owner |-> <<[prop |-> "selectedIds", ids |-> owner.callback]>>,
                      action |-> kind]
  /\ UNCHANGED <<items, selectionMode, loaderConfigured, expandedIds, focusedId, anchorId,
                 dndVars, lazyVars, convVars, obsVars, groupVars>>

\* the caller stores the list its change callback received and renders the
\* controlled instance with it
OwnerApply ==
  /\ controlledTree.pending # <<>>
  /\ LET change == Head(controlledTree.pending)
     IN  controlledTree' =
           [controlledTree EXCEPT
              !.pending = Tail(@),
              !.expandedIds = IF change.prop = "expandedIds" THEN Some(change.ids) ELSE @,
              !.selectedIds = IF change.prop = "selectedIds" THEN Some(change.ids) ELSE @]
  /\ UNCHANGED <<treeVars, dndVars, lazyVars, convVars, obsVars, groupVars, changes>>

NextOwner ==
  \/ \E kind \in ExpansionActions, id \in idsOf(flatNodes) : ExpansionAction(kind, id)
  \/ \E kind \in SelectionActions, id \in idsOf(flatNodes) : SelectionAction(kind, id)
  \/ OwnerApply

SpecOwner == InitOwner /\ [][NextOwner]_vars

\* ------------------------------------------------ tree vocabulary -------
\* (used to state the properties; independent of the converters)
KidsOf(node) == IF node.children = Undefined THEN <<>> ELSE node.children[1]

RECURSIVE NestedIds(_)
NestedIds(nodes) ==
  UNION {{nodes[i].id} \cup NestedIds(KidsOf(nodes[i])) : i \in DOMAIN nodes}

RECURSIVE NestedDepth(_)
NestedDepth(nodes) ==
  IF nodes = <<>> THEN 0
  ELSE 1 + (CHOOSE m \in 0..MaxNodes :
              /\ \A i \in DOMAIN nodes : NestedDepth(KidsOf(nodes[i])) <= m
              /\ \E i \in DOMAIN nodes : NestedDepth(KidsOf(nodes[i])) = m)

\* a lazy (unloaded) group: isGroup true and no children field
RECURSIVE NoLazyGroups(_)
NoLazyGroups(nodes) ==
  \A i \in DOMAIN nodes :
    /\ ~(nodes[i].isGroup = Some(TRUE) /\ nodes[i].children = Undefined)
    /\ NoLazyGroups(KidsOf(nodes[i]))

\* the parent chain of id in a flat array, as a set (empty for a root)
ParentIn(flat, id) ==
  IF \E i \in DOMAIN flat : flat[i].id = id
    THEN flat[CHOOSE i \in DOMAIN flat : flat[i].id = id].parentId
    ELSE NULL

RECURSIVE AncestorsWithin(_, _, _)
AncestorsWithin(flat, id, fuel) ==
  LET p == ParentIn(flat, id)
  IN  IF p = NULL \/ fuel = 0 THEN {}
      ELSE {p} \cup AncestorsWithin(flat, p, fuel - 1)

AncestorsOf(flat, id) == AncestorsWithin(flat, id, Len(flat))

DescendantsOf(flat, id) == {d \in idsOf(flat) : id \in AncestorsOf(flat, d)}

RECURSIVE IsSubsequence(_, _)
IsSubsequence(a, b) ==
  IF a = <<>> THEN TRUE
  ELSE IF b = <<>> THEN FALSE
  ELSE IF Head(a) = Head(b) THEN IsSubsequence(Tail(a), Tail(b))
  ELSE IsSubsequence(a, Tail(b))

\* ------------------------------------------------------------ C1 --------
\* following parentId links from id reaches null without revisiting a node
RECURSIVE ReachesNull(_, _, _)
ReachesNull(flat, id, fuel) ==
  IF id = NULL THEN TRUE
  ELSE IF fuel = 0 \/ ~hasNode(flat, id) THEN FALSE
  ELSE ReachesNull(flat, nodeOf(flat, id).parentId, fuel - 1)

\* C1: after a drag end that delivers a tree (single-node or multi-selection
\* move), in the flat result handed to buildTree the parentId links from every
\* node reach null without revisiting a node.
C1_MoveResultAcyclic ==
  (ev.type = "dragEnd" /\ calls.buildTree # <<>>) =>
    LET result == calls.buildTree[1]
    IN  \A i \in DOMAIN result : ReachesNull(result, result[i].id, Len(result))

\* a multi-selection was dropped inside a group
C1_Witness ==
  /\ ev.type = "dragEnd"
  /\ calls.buildTree # <<>>
  /\ selectionMode = "multiple" /\ ev.source \in ev.had
  /\ calls.dragEnd[1].position = "inside"
  /\ nodeOf(calls.buildTree[1], ev.source).parentId = ev.target
  /\ calls.itemsChange = <<items>>

\* ------------------------------------------------------------ C2 --------
\* the moving set of a drag: the selected roots (or the dragged node alone)
\* and all their descendants
Moving(flat, mode, selected, source) ==
  LET roots == IF mode = "multiple" /\ source \in selected THEN selected ELSE {source}
  IN  roots \cup UNION {DescendantsOf(flat, r) : r \in roots}

\* C2: a drag end whose resolved parent is the dragged node or another node
\* of the moving set changes nothing: onItemsChange is not called and the
\* session state is reset.
C2_DropIntoMovingSetAborts ==
  [][(/\ activeId # NULL
      /\ ev'.type = "dragEnd" /\ ~ev'.canceled
      /\ opTarget # NULL
      /\ projectedParentIdRef \in Moving(flatNodes, selectionMode, selectedIds, activeId))
     => /\ calls' = NoCalls
        /\ items' = items
        /\ activeId' = NULL /\ overId' = NULL /\ dropPosition' = "null"
        /\ projectedDepth' = NullDepth /\ projectedParentId' = NULL
        /\ dropPositionRef' = "null" /\ projectedDepthRef' = NullDepth
        /\ projectedParentIdRef' = NULL]_vars

\* a drag that was not canceled ended over a descendant of the dragged node,
\* or over another node of the selection, and nothing was delivered
C2_Witness ==
  /\ ev.type = "dragEnd" /\ ~ev.canceled
  /\ ev.target # NULL /\ ev.target # ev.source
  /\ ev.target \in Moving(flatNodes, selectionMode, ev.had, ev.source)
  /\ calls = NoCalls
  /\ activeId = NULL

\* ------------------------------------------------------------ C3 --------
\* x and y agree on ids, data and children order at every level, and on
\* isGroup either verbatim (strict) or as buildTree writes it back: true when
\* the explicit isGroup is true or, with no explicit isGroup, the children
\* list is non-empty; absent otherwise.
RECURSIVE SameNodes(_, _, _)
SameNodes(xs, ys, strict) ==
  /\ Len(xs) = Len(ys)
  /\ \A i \in DOMAIN xs :
       LET x == xs[i]
           y == ys[i]
           derived == IF x.isGroup # Undefined THEN x.isGroup[1]
                                                ELSE Len(KidsOf(x)) > 0
       IN  /\ x.id = y.id
           /\ x.data = y.data
           /\ IF strict THEN x.isGroup = y.isGroup
                        ELSE /\ y.isGroup = (IF derived THEN Some(TRUE) ELSE Undefined)
                             /\ (x.children = Undefined) = (y.children = Undefined)
           /\ SameNodes(KidsOf(x), KidsOf(y), strict)

C4_VisibleIffAncestorsExpanded ==
  cStep = "visible" =>
    /\ IsSubsequence(cVisible, cFlat)
    /\ \A i \in DOMAIN cFlat :
         (cFlat[i].id \in idsOf(cVisible))
           <=> (AncestorsOf(cFlat, cFlat[i].id) \subseteq expandedIds)

\* ------------------------------------------------------------ C5 --------
\* C5: for every node id at most one loader invocation is outstanding at a
\* time: no two unsettled promises are for the same id, and an expand attempt
\* on a node whose load is in flight makes no loader call.
C5_OneLoadInFlightPerNode ==
  [][/\ \A p, q \in pending' : p.id = q.id => p = q
     /\ calls'.loadChildren # <<>> => calls'.loadChildren[1] \notin inFlightRef]_vars

\* a node was toggled again while its load was in flight, and nothing was called
C5_Witness ==
  /\ loaderConfigured
  /\ ev.type = "toggle"
  /\ ev.source \in inFlightRef
  /\ calls = NoCalls
  /\ Cardinality(pending) = 1

\* ------------------------------------------------------------ C6 --------
isLazy(flat, id) ==
  hasNode(flat, id) /\ nodeOf(flat, id).isGroup /\ ~nodeOf(flat, id).childrenLoaded

\* C6: with a loader configured, a group whose childrenLoaded is false enters
\* the expansion set only through the successful resolution of its own load,
\* whatever the expand attempt was (toggle, expand key, "*").
C6_LazyExpandsOnlyAfterLoad ==
  [][\A id \in expandedIds' \ expandedIds :
       (loaderConfigured /\ isLazy(flatNodes, id))
         => (ev'.type = "loadResolved" /\ ev'.source = id)]_vars

\* ------------------------------------------------------------ C7 --------
\* what a failed load leaves behind: the error reported once with the node's
\* id, no tree delivered, the node not added to the expansion set, its
\* in-flight and loading markers cleared
FailureReported ==
  ev'.type = "loadRejected" =>
    /\ calls' = [NoCalls EXCEPT !.loadError = <<ev'.source>>]
    /\ items' = items
    /\ expandedIds' = expandedIds
    /\ ev'.source \notin inFlightRef'
    /\ ev'.source \notin loadingIds'

\* an expand attempt on the node whose load just failed
RetryBy(kinds) ==
  /\ ev.type = "loadRejected"
  /\ isLazy(flatNodes, ev.source)
  /\ ev'.type \in kinds
  /\ ev'.source = ev.source
  /\ ev'.type = "ArrowRight" => ev.source \notin expandedIds

\* C7: when a node's load fails the error is reported once through
\* onLoadError with the node's id, no tree is delivered, the node is not added
\* to the expansion set, its markers are cleared, and the next expand attempt
\* on it (toggle or expand key) invokes the loader again.
C7_FailureThenRetry ==
  [][/\ FailureReported
     /\ RetryBy({"toggle", "ArrowRight"}) => calls'.loadChildren = <<ev.source>>]_vars

\* C7 for the attempts that go through TreeView.toggleExpand
C7_FailureThenRetryByToggle ==
  [][/\ FailureReported
     /\ RetryBy({"toggle"}) => calls'.loadChildren = <<ev.source>>]_vars

\* ------------------------------------------------------------ C8 --------
\* C8: when the load of B resolves and loads of other nodes A resolved while
\* B's was in flight, the tree delivered last holds the loaded children of A
\* and of B, B is expanded and so is every A that was.
C8_ConcurrentLoadsBothApplied ==
  [][ev'.type = "loadResolved" =>
       /\ LoadedChildId(ev'.source) \in NestedIds(items')
       /\ ev'.source \in expandedIds'
       /\ \A a \in ev'.seen :
            /\ LoadedChildId(a) \in NestedIds(items')
            /\ a \in expandedIds => a \in expandedIds']_vars

C10_SelectionWithinMode ==
  /\ selectionMode = "single" => Cardinality(selectedIds) <= 1
  /\ selectionMode = "none" => selectedIds = {}

\* in single mode a click on a second node replaced the selected one
C10_Witness ==
  /\ selectionMode = "single"
  /\ ev.type = "click"
  /\ ev.had # {} /\ ev.source \notin ev.had
  /\ selectedIds = {ev.source}

\* ------------------------------------------------------------ C11 -------
\* the events that call selectRange, and the id they call it with
RangeEvents == {"shiftClick", "ShiftArrowDown", "ShiftArrowUp"}

positionOf(visible, id) == CHOOSE k \in DOMAIN visible : visible[k].id = id

Between(visible, a, b) ==
  {visible[k].id : k \in {j \in DOMAIN visible :
      \/ positionOf(visible, a) <= j /\ j <= positionOf(visible, b)
      \/ positionOf(visible, b) <= j /\ j <= positionOf(visible, a)}}

\* C11: selectRange(id) with a remembered anchor a replaces the selection by
\* exactly the ids of the visible sequence from a to id, both included,
\* whether id comes before or after a; without an anchor it does what
\* select(id) does.
C11_RangeIsSpan ==
  [][(selectionMode = "multiple" /\ ev'.type \in RangeEvents) =>
       LET id == IF ev'.type = "shiftClick" THEN ev'.source ELSE focusedId'
       IN  IF anchorId = NULL
             THEN selectedIds' = select(selectionMode, selectedIds, id)
             ELSE selectedIds' = Between(visibleNodes, anchorId, id)]_vars

\* a shift-click two rows above the anchor selected the three rows, replacing
\* a selection that held a row outside of them or lacked one of them
C11_Witness ==
  /\ selectionMode = "multiple"
  /\ ev.type = "shiftClick"
  /\ ev.anchor # NULL
  /\ positionOf(visibleNodes, ev.source) + 2 = positionOf(visibleNodes, ev.anchor)
  /\ Cardinality(selectedIds) = 3
  /\ ev.had # selectedIds

\* ------------------------------------------------------------ C12 -------
\* the ids of a flat array that lie in S, in the array's order
Restrict(flat, S) == SelectSeq([i \in DOMAIN flat |-> flat[i].id], LAMBDA x : x \in S)

\* the selected nodes that are not descendants of another selected node
SelectedRoots(flat, selected) ==
  {r \in selected : \A t \in selected : r \notin DescendantsOf(flat, t)}

\* from `before` to `after` exactly the roots moved, each with its subtree:
\* the roots are children of `parent` in their former order, every other
\* node has the parent it had, and the nodes that stayed kept their order
MovedExactly(before, after, roots, parent) ==
  LET moved == roots \cup UNION {DescendantsOf(before, r) : r \in roots}
      stayed == idsOf(before) \ moved
  IN  /\ idsOf(after) = idsOf(before)
      /\ \A r \in roots : /\ ParentIn(after, r) = parent
                           /\ DescendantsOf(after, r) = DescendantsOf(before, r)
      /\ \A x \in idsOf(before) \ roots : ParentIn(after, x) = ParentIn(before, x)
      /\ Restrict(after, roots) = Restrict(before, roots)
      /\ Restrict(after, stayed) = Restrict(before, stayed)

C12_WitnessSingle ==
  /\ selectionMode = "multiple"
  /\ ev.type = "dragEnd" /\ calls.itemsChange # <<>>
  /\ ev.source \notin ev.had
  /\ ParentIn(flatNodes, ev.source) = ev.target

\* ------------------------------------------------------------ C13 -------
\* C13: an over event that is accepted (it leaves its target as overId) over
\* a group that is in the expansion set and has no visible child records
\* dropPosition = inside, projectedDepth = the group's depth + 1 and
\* projectedParentId = the group's id, in the state and in the refs, whatever
\* the pointer offset.
C13_EmptyExpandedGroupTakesInside ==
  [][(/\ ev'.type = "dragOver" /\ ev'.target # NULL
      /\ overId' = ev'.target
      /\ hasNode(flatNodes, ev'.target)
      /\ nodeOf(flatNodes, ev'.target).isGroup
      /\ ev'.target \in expandedIds
      /\ \A i \in DOMAIN visibleNodes : visibleNodes[i].parentId # ev'.target)
     => /\ dropPosition' = "inside" /\ dropPositionRef' = "inside"
        /\ projectedDepth' = nodeOf(flatNodes, ev'.target).depth + 1
        /\ projectedDepthRef' = projectedDepth'
        /\ projectedParentId' = ev'.target
        /\ projectedParentIdRef' = ev'.target]_vars

\* the pointer is over an expanded group without children, one indentation
\* to the left of where the drag of another node started: by depth alone the
\* drop would go after the group
C13_Witness ==
  /\ ev.type = "dragOver" /\ ev.target # NULL /\ overId = ev.target
  /\ ev.target # activeId
  /\ hasNode(flatNodes, ev.target)
  /\ nodeOf(flatNodes, ev.target).isGroup
  /\ ev.target \in expandedIds
  /\ \A i \in DOMAIN visibleNodes : visibleNodes[i].parentId # ev.target
  /\ offsetRef = 0 - IndentationWidth
  /\ dropPosition = "inside" /\ projectedParentId = ev.target

\* ------------------------------------------------------------ C17 -------
\* the session state of the instance is all null
SessionCleared ==
  /\ activeId = NULL /\ overId = NULL /\ dropPosition = "null"
  /\ projectedDepth = NullDepth /\ projectedParentId = NULL

C17_WitnessAbsent ==
  /\ ev.type = "dragEnd" /\ ~ev.canceled /\ ev.target = ForeignId
  /\ calls = NoCalls
  /\ SessionCleared

\* ------------------------------------------------------------ C19 -------
\* C19: a pending auto-expand timer is cancelled whenever the hover changes
\* or is cleared (over event on another node, over event with no target,
\* over event rejected by the cycle guard, drag end): a timer that is pending
\* is the timer of the instance's current hover target, and the auto-expand
\* fires only for the group that is the current hover target.
C19_TimerFollowsHover ==
  [][/\ hoverTimerRef' # NULL => hoverTimerRef' = overId'
     /\ ev'.type = "hoverExpand" => ev'.source = overId]_vars

\* ------------------------------------------------------------ C20 -------
\* C20: in every reachable state, after any sequence of key events and of
\* expand, collapse and toggle actions by key or by click, the focused id is
\* null or the id of a node of the current visible sequence.
C20_FocusIsVisible == focusedId = NULL \/ hasNode(visibleNodes, focusedId)

\* ------------------------------------------------------------ C14 -------
\* the instance t owns the node id
Owns(t, id) == id \in NestedIds(registrationsRef[t].items)

\* C14: when a shared drag ends with its source owned by an instance A and
\* its target owned by another instance B, the coordinator delivers exactly
\* one end event, which carries a cross-instance descriptor with
\* sourceTreeId = A and targetTreeId = B, and neither instance calls its own
\* onItemsChange.
C14_CrossDropOnlyDescribes ==
  [][\A a, b \in TreeIds :
       (/\ groupEv'.type = "end"
        /\ a # b /\ Owns(a, operation.source) /\ Owns(b, operation.target))
       => /\ Len(groupEv'.ended) = 1
          /\ groupEv'.ended[1].crossTree # Undefined
          /\ groupEv'.ended[1].crossTree[1].sourceTreeId = a
          /\ groupEv'.ended[1].crossTree[1].targetTreeId = b
          /\ \A t \in TreeIds :
               /\ registrationsRef'[t].itemsChange = registrationsRef[t].itemsChange
               /\ registrationsRef'[t].items = registrationsRef[t].items]_vars

\* a node of the first instance was dropped on a node of the second
C14_Witness ==
  /\ groupEv.type = "end" /\ ~groupEv.canceled
  /\ Owns("A", groupEv.source) /\ Owns("B", groupEv.target)
  /\ groupEv.ended[1].crossTree # Undefined
  /\ groupEv.ended[1].crossTree[1].targetTreeId = "B"
  /\ \A t \in TreeIds : registrationsRef[t].itemsChange = <<>>

\* a node of the second instance was dropped on a node of the first
C14_WitnessBack ==
  /\ groupEv.type = "end" /\ ~groupEv.canceled
  /\ Owns("B", groupEv.source) /\ Owns("A", groupEv.target)
  /\ groupEv.ended[1].crossTree # Undefined
  /\ groupEv.ended[1].crossTree[1].targetTreeId = "A"

\* ------------------------------------------------------------ C15 -------
\* the end handler of instance t has just delivered a drop of its own
OwnDrop(t) == Len(registrationsRef'[t].dragEnd) > Len(registrationsRef[t].dragEnd)

\* the projection an instance's own end handler consumed is the one its most
\* recent accepted over event wrote
OwnEndConsumesLastOver ==
  \A t \in TreeIds :
    (groupEv'.type = "end" /\ OwnDrop(t))
    => registrationsRef'[t].consumed = groupEv.over[t]

\* the half of C15 about an instance's own end handler, which reads the refs
C15_OwnEndConsumesLastOver == [][OwnEndConsumesLastOver]_vars

\* the projection of a cross-instance descriptor is the one the most recent
\* accepted over event of the target instance wrote
CrossEndConsumesLastOver ==
  (groupEv'.type = "end" /\ groupEv'.ended[1].crossTree # Undefined)
  => LET crossTree == groupEv'.ended[1].crossTree[1]
     IN  [dropPosition |-> crossTree.dropPosition,
          projectedDepth |-> crossTree.projectedDepth,
          projectedParentId |-> crossTree.projectedParentId]
           = groupEv.over[crossTree.targetTreeId]

\* C15: the projection consumed at drag end (dropPosition, projectedDepth,
\* projectedParentId) is the one written by the most recent over event, even
\* when no render happened between that over event and the drag end, both in
\* an instance's own end handler and in the descriptor the coordinator
\* snapshots from the target instance on a cross-instance drop.
C15_EndConsumesLastOver ==
  [][OwnEndConsumesLastOver /\ CrossEndConsumesLastOver]_vars

\* ------------------------------------------------------------ C16 -------
\* the over event just processed sent a cleared over event to instance t
Left(t) == groupEv'.type = "over" /\ groupEv'.left = t

\* the instance the pointer left shows no hover target and no drop position
C16_LeftInstanceHasNoTarget ==
  [][\A t \in TreeIds :
       Left(t) => /\ registrationsRef'[t].overId = NULL
                  /\ registrationsRef'[t].dropPosition = "null"]_vars

\* C16: when an over event of a shared drag resolves to another instance than
\* the one hovered before, the instance hovered before is sent a cleared over
\* event, after which its overId, dropPosition, projectedDepth and
\* projectedParentId are all null.
C16_LeftInstanceIsCleared ==
  [][\A t \in TreeIds :
       Left(t) => /\ registrationsRef'[t].overId = NULL
                  /\ registrationsRef'[t].dropPosition = "null"
                  /\ registrationsRef'[t].projectedDepth = NullDepth
                  /\ registrationsRef'[t].projectedParentId = NULL]_vars

\* ------------------------------------------------------------ C18 -------
\* instance t holds no drag session state
InstanceCleared(t) ==
  /\ registrationsRef'[t].activeId = NULL
  /\ registrationsRef'[t].overId = NULL
  /\ registrationsRef'[t].dropPosition = "null"
  /\ registrationsRef'[t].projectedDepth = NullDepth
  /\ registrationsRef'[t].projectedParentId = NULL

\* a drag end with no target, and a cross-instance drop, leave the instances
\* whose end handler ran without session state
C18_HandledInstancesAreCleared ==
  [][groupEv'.type = "end"
     => \A t \in TreeIds :
          (\/ groupEv'.target = NULL
           \/ /\ groupEv'.ended[1].crossTree # Undefined
              /\ t \in {groupEv'.ended[1].crossTree[1].sourceTreeId,
                        groupEv'.ended[1].crossTree[1].targetTreeId})
          => InstanceCleared(t)]_vars

\* C18: after the coordinator has processed a drag end event (same-instance
\* drop, cross-instance drop, missing target, or an id no registered instance
\* owns), every registered instance has activeId, overId, dropPosition,
\* projectedDepth and projectedParentId all null.
C18_EndClearsEveryInstance ==
  [][groupEv'.type = "end" => \A t \in TreeIds : InstanceCleared(t)]_vars

\* ------------------------------------------------------------ C21 -------
\* the nodes of flat under parentId, in array order
SiblingsIn(flat, parentId) == SelectSeq(flat, LAMBDA n : n.parentId = parentId)

\* the index values under every parent are 0, 1, .. in array order
ContiguousIndices(flat) ==
  \A p \in idsOf(flat) \cup {NULL, NewId} :
    LET siblings == SiblingsIn(flat, p)
    IN  \A k \in DOMAIN siblings : siblings[k].index = k - 1

\* C21: after removeNodes or insertNodes on a flat array, and in every array
\* flattenTree produces, the index values of the nodes sharing a parentId are
\* exactly 0..count-1 in array order.
C21_SiblingIndicesContiguous ==
  cStep \in {"flat", "removed", "inserted"} => ContiguousIndices(cFlat)

\* a removal after which a remaining node has another index than flattenTree
\* gave it
C21_Witness ==
  /\ cStep = "removed"
  /\ \E i \in DOMAIN cFlat :
       cFlat[i].index # nodeOf(flattenTree(items, NULL, 0), cFlat[i].id).index

\* an insertion before an existing sibling, whose index moves up
C21_WitnessInsert ==
  /\ cStep = "inserted"
  /\ \E i \in DOMAIN cFlat :
       /\ cFlat[i].id \in NestedIds(items)
       /\ cFlat[i].index > nodeOf(flattenTree(items, NULL, 0), cFlat[i].id).index

\* ------------------------------------------------------------ C22 -------
\* the nested nodes and everything below them sit in flat with the given
\* parentId and depth, each node before its descendants and after the
\* subtrees of its earlier siblings
RECURSIVE PreOrderIn(_, _, _, _)
PreOrderIn(flat, nodes, parentId, depth) ==
  \A i \in DOMAIN nodes :
    LET at == positionOf(flat, nodes[i].id)
    IN  /\ \E k \in DOMAIN flat : flat[k].id = nodes[i].id
        /\ flat[at].parentId = parentId
        /\ flat[at].depth = depth
        /\ \A d \in NestedIds(KidsOf(nodes[i])) : at < positionOf(flat, d)
        /\ \A j \in 1..(i - 1) :
             \A e \in {nodes[j].id} \cup NestedIds(KidsOf(nodes[j])) :
               positionOf(flat, e) < at
        /\ PreOrderIn(flat, KidsOf(nodes[i]), nodes[i].id, depth + 1)

\* C22: in every flat array flattenTree produces, each node appears before all
\* of its descendants and after the whole subtree of every earlier sibling,
\* roots have depth 0 and parentId null, and every other node has its parent's
\* id as parentId and its parent's depth + 1.
C22_FlattenIsPreOrder ==
  cStep = "flat" => /\ PreOrderIn(cFlat, items, NULL, 0)
                    /\ Len(cFlat) = Cardinality(NestedIds(items))

\* a flattened tree with a node that has both a descendant and a later sibling
C22_Witness ==
  /\ cStep = "flat"
  /\ Len(items) >= 2
  /\ KidsOf(items[1]) # <<>>

\* ------------------------------------------------------------ C23 -------
\* the caller has applied every change callback it received
OwnerUpToDate == controlledTree.pending = <<>>

\* the last action wrote through a setter
Wrote(prop) ==
  IF prop = "expandedIds" THEN changes.action \in ExpansionActions
  ELSE changes.action \in SelectionActions /\ selectionMode # "none"

\* the sets the two instances render with
SameSets ==
  /\ elements(controlledTree.expandedIds[1]) = expandedIds
  /\ elements(controlledTree.selectedIds[1]) = selectedIds

\* both instances invoked the change callback of prop once, with the whole
\* new id list
CallbackCarries(prop, ids) ==
  /\ Len(changes.engine) = 1 /\ Len(changes.owner) = 1
  /\ changes.engine[1].prop = prop /\ changes.owner[1].prop = prop
  /\ elements(changes.engine[1].ids) = ids
  /\ elements(changes.owner[1].ids) = ids
  /\ Len(changes.engine[1].ids) = Cardinality(ids)
  /\ Len(changes.owner[1].ids) = Cardinality(ids)

\* C23: for the same sequence of expansion and selection actions, a
\* caller-owned expansion/selection whose owner applies every change callback
\* before the next action goes through the same sets as the engine-owned
\* state, and in both ownership modes every write invokes the change callback
\* with the full new id list.
C23_OwnershipIndistinguishable ==
  OwnerUpToDate =>
    /\ SameSets
    /\ Wrote("expandedIds") => CallbackCarries("expandedIds", expandedIds)
    /\ Wrote("selectedIds") => CallbackCarries("selectedIds", selectedIds)

\* the caller has applied the callback of a toggleSelect that grew the
\* selection to two nodes
C23_Witness ==
  /\ OwnerUpToDate
  /\ changes.action = "toggleSelect"
  /\ Len(changes.owner) = 1
  /\ Cardinality(selectedIds) = 2

\* the caller has applied the callback of a collapse that left another node
\* expanded
C23_WitnessCollapse ==
  /\ OwnerUpToDate
  /\ changes.action = "collapse"
  /\ Len(changes.owner) = 1
  /\ expandedIds # {}

\* ------------------------------------------------------------ C24 -------
\* ArrowRight has just been handled with the focus on the visible node at
\* position k of the rendered rows
ArrowRightAt(k) ==
  /\ ev'.type = "ArrowRight"
  /\ k \in DOMAIN visibleNodes
  /\ visibleNodes[k].id = focusedId

CollapsedGroupAt(k) == visibleNodes[k].isGroup /\ visibleNodes[k].id \notin expandedIds

ExpandedParentAt(k) ==
  /\ visibleNodes[k].isGroup /\ visibleNodes[k].id \in expandedIds
  /\ k < Len(visibleNodes)
  /\ visibleNodes[k + 1].parentId = visibleNodes[k].id

\* ArrowRight on a collapsed group expands it and on an expanded group with a
\* visible child moves the focus to the first child
ArrowRightOnGroup(k) ==
  /\ CollapsedGroupAt(k)
       => visibleNodes[k].id \in expandedIds' /\ focusedId' = focusedId
  /\ ExpandedParentAt(k)
       => focusedId' = visibleNodes[k + 1].id /\ expandedIds' = expandedIds

\* C24: ArrowRight with the focus on a visible node expands a collapsed group,
\* moves the focus to the child of an expanded group whose next visible node is
\* its child and, on a leaf, moves the focus to the leaf's parent.
C24_ArrowRightLeafToParent ==
  [][\A k \in DOMAIN visibleNodes :
       ArrowRightAt(k)
       => /\ ArrowRightOnGroup(k)
          /\ (~visibleNodes[k].isGroup /\ visibleNodes[k].parentId # NULL)
               => focusedId' = visibleNodes[k].parentId]_vars

\* C24 as the key handler has it: on a leaf ArrowRight changes neither the
\* focus nor the expansion
C24_ArrowRightLeafStays ==
  [][\A k \in DOMAIN visibleNodes :
       ArrowRightAt(k)
       => /\ ArrowRightOnGroup(k)
          /\ ~visibleNodes[k].isGroup
               => focusedId' = focusedId /\ expandedIds' = expandedIds]_vars

\* ArrowRight was pressed with the focus on a visible leaf that has a parent
C24_Witness ==
  /\ ev.type = "ArrowRight"
  /\ focusedId = ev.source
  /\ expandedIds = ev.was
  /\ hasNode(visibleNodes, focusedId)
  /\ ~nodeOf(visibleNodes, focusedId).isGroup
  /\ nodeOf(visibleNodes, focusedId).parentId # NULL

\* ArrowRight moved the focus from an expanded group to its first child
C24_WitnessChild ==
  /\ ev.type = "ArrowRight"
  /\ hasNode(visibleNodes, focusedId)
  /\ nodeOf(visibleNodes, focusedId).parentId = ev.source
  /\ ev.source # NULL

\* ArrowRight expanded a collapsed group
C24_WitnessExpand ==
  /\ ev.type = "ArrowRight"
  /\ focusedId = ev.source
  /\ focusedId \in expandedIds \ ev.was

\* ------------------------------------------------------------ C25 -------
\* what plain select leaves selected: only id, and nothing where selection
\* is switched off
OnlySelected(id) == IF selectionMode = "none" THEN {} ELSE {id}

\* id has changed sides in the selection and nothing else has
Toggled(id) ==
  /\ (id \in selectedIds') # (id \in selectedIds)
  /\ selectedIds' \ {id} = selectedIds \ {id}

\* a key was handled while the focus was on a visible node
KeyOnFocus(type) == ev'.type = type /\ hasNode(visibleNodes, focusedId)

C25_WitnessEnter ==
  /\ ev.type = "Enter"
  /\ focusedId # NULL /\ focusedId = ev.source
  /\ selectedIds = {focusedId}
  /\ Cardinality(ev.had) = 2

\* Ctrl/Cmd+A was pressed in single mode with a node selected
C25_WitnessSingle ==
  /\ ev.type = "CtrlA"
  /\ selectionMode = "single"
  /\ focusedId # NULL
  /\ Cardinality(selectedIds) = 1

\* ------------------------------------------------------------ C26 -------
\* a drag end has just delivered a tree
Delivered == ev'.type = "dragEnd" /\ calls'.itemsChange # <<>>

\* the roots the drop moves and everything below them, before the drop
MovedRoots ==
  IF selectionMode = "multiple" /\ activeId \in selectedIds /\ Cardinality(selectedIds) > 1
    THEN SelectedRoots(flatNodes, selectedIds)
    ELSE {activeId}

MovedNodes == MovedRoots \cup UNION {DescendantsOf(flatNodes, r) : r \in MovedRoots}

\* in the pre-order `after` of the delivered tree the moved nodes sit right
\* behind the target: for inside the first moved root is the first child of
\* the target, for after they follow the last node of the target's subtree
SitsBehindTarget(after, target, position) ==
  /\ \E k \in DOMAIN after : after[k].id = target
  /\ LET at == positionOf(after, target)
         roots == Restrict(flatNodes, MovedRoots)
         last == Max(at, CHOOSE m \in DOMAIN after :
                           /\ after[m].id \in {target} \cup DescendantsOf(after, target)
                           /\ \A n \in DOMAIN after :
                                after[n].id \in DescendantsOf(after, target) => n <= m)
     IN  IF position = "inside"
           THEN /\ at < Len(after)
                /\ after[at + 1].id = roots[1]
                /\ after[at + 1].parentId = target
           ELSE {after[k].id : k \in (last + 1)..(last + Cardinality(MovedNodes))
                                   \cap DOMAIN after} = MovedNodes

\* C26: in the tree delivered by a completed drop the moved nodes sit
\* immediately after the target: for position inside the first moved root is
\* the target's first child, for position after the moved nodes come directly
\* after the target's entire subtree in pre-order.
C26_MovedNodesFollowTarget ==
  [][Delivered => SitsBehindTarget(flattenTree(calls'.itemsChange[1], NULL, 0),
                                   opTarget, dropPositionRef)]_vars

\* the drops of C26 whose target is not one of the moved nodes
C26_MovedNodesFollowOtherTarget ==
  [][(Delivered /\ opTarget \notin MovedNodes)
     => SitsBehindTarget(flattenTree(calls'.itemsChange[1], NULL, 0),
                         opTarget, dropPositionRef)]_vars

\* ------------------------------------------------------------ C27 -------
\* an over event has just left the instance with a hover target
Hovering == ev'.type = "dragOver" /\ overId' # NULL

\* C27: whenever an over event leaves the instance with a non-null hover
\* target, the recorded projected parent (state and ref) is not the dragged
\* node nor one of its descendants, and in multiple mode with the dragged node
\* selected it is not a selected node nor a descendant of one.
C27_HoverParentOutsideMovingSet ==
  [][Hovering
     => /\ projectedParentId' \notin Moving(flatNodes, selectionMode, selectedIds, activeId)
        /\ projectedParentIdRef' \notin Moving(flatNodes, selectionMode, selectedIds, activeId)]_vars

\* C27 for the hover targets that are not expanded groups without visible
\* children
C27_HoverParentOutsideMovingSetElsewhere ==
  [][(Hovering /\ hasNode(flatNodes, overId')
               /\ ~isExpandedEmptyGroup(visibleNodes, expandedIds, nodeOf(flatNodes, overId')))
     => projectedParentIdRef' \notin Moving(flatNodes, selectionMode, selectedIds, activeId)]_vars

\* ------------------------------------------------------------ C28 -------
\* an over event on a row has just been rejected by the cycle guard: the
\* guard is the only path that leaves no hover target for a non-null target
RejectedByGuard == ev'.type = "dragOver" /\ ev'.target # NULL /\ overId' = NULL

\* C28: when an over event is rejected by the cycle guard the instance holds
\* no hover target and no projection afterwards: the dropPosition,
\* projectedDepth and projectedParentId a following drag end consumes (the
\* refs) are null, not values left by an earlier over event.
C28_RejectedOverLeavesNoProjection ==
  [][RejectedByGuard
     => /\ overId' = NULL /\ dropPosition' = "null"
        /\ dropPositionRef' = "null"
        /\ projectedDepthRef' = NullDepth
        /\ projectedParentIdRef' = NULL]_vars

\* C28 for the rendered state only: the hover target and drop position of
\* the render are cleared by a rejection
C28_RejectedOverClearsHover ==
  [][RejectedByGuard => overId' = NULL /\ dropPosition' = "null"]_vars

\* C28 for a rejection that no accepted over event preceded
C28_FirstRejectedOverLeavesNoProjection ==
  [][(RejectedByGuard /\ dropPositionRef = "null" /\ projectedDepthRef = NullDepth)
     => /\ dropPositionRef' = "null"
        /\ projectedDepthRef' = NullDepth
        /\ projectedParentIdRef' = NULL]_vars

\* ------------------------------------------------------------ C30 -------
\* where each node of a flat array sits: its parent and its place among the
\* siblings
placeOf(flat) == {<<flat[k].id, flat[k].parentId, flat[k].index>> : k \in DOMAIN flat}

\* the drag of one node (no other selected node moves with it) ends on the
\* dragged node itself, the last over event having been on that node with the
\* pointer where the drag started
SelfDropEnds ==
  /\ ev'.type = "dragEnd" /\ ~ev'.canceled
  /\ activeId # NULL /\ opTarget = activeId
  /\ offsetRef = 0
  /\ MovedRoots = {activeId}

\* C30: a drag that ends with the target equal to the dragged node, with zero
\* pointer offset, delivers a tree in which every node has the parent and the
\* sibling position it had, in the same pre-order, or delivers none.
C30_SelfDropChangesNothing ==
  [][SelfDropEnds
     => \/ calls'.itemsChange = <<>>
        \/ LET after == flattenTree(calls'.itemsChange[1], NULL, 0)
           IN  /\ placeOf(after) = placeOf(flatNodes)
               /\ [k \in DOMAIN after |-> after[k].id]
                    = [k \in DOMAIN flatNodes |-> flatNodes[k].id]]_vars

\* C30 for the self-drops whose node is the last one of the flat array and
\* whose recorded parent is its own parent
C30_SelfDropOfLastNodeChangesNothing ==
  [][(/\ SelfDropEnds
      /\ flatNodes[Len(flatNodes)].id = activeId
      /\ projectedParentIdRef = nodeOf(flatNodes, activeId).parentId)
     => \/ calls'.itemsChange = <<>>
        \/ placeOf(flattenTree(calls'.itemsChange[1], NULL, 0)) = placeOf(flatNodes)]_vars

\* C30 for the self-drops whose over event was accepted
C30_AcceptedSelfDropChangesNothing ==
  [][(SelfDropEnds /\ overId = activeId)
     => \/ calls'.itemsChange = <<>>
        \/ placeOf(flattenTree(calls'.itemsChange[1], NULL, 0)) = placeOf(flatNodes)]_vars

\* --------------------- drag and drop over a tree with an unloaded group ---
\* trees with exactly one group whose children are not loaded yet (isGroup
\* true, no children list); the other childless nodes are leaves
DndLazyTrees ==
  {t \in Forests(MaxNodes, {PlainLeaf, LazyLeaf}, {Undefined}) :
     LET flat == flattenTree(t, NULL, 0)
     IN  Cardinality({k \in DOMAIN flat : ~flat[k].childrenLoaded /\ flat[k].isGroup}) = 1}

InitDndLazy ==
  /\ items \in DndLazyTrees
  /\ selectionMode \in {"single", "multiple"}
  /\ expandedIds \in SUBSET {flatNodes[i].id : i \in {j \in DOMAIN flatNodes : flatNodes[j].isGroup}}
  /\ selectedIds \in IF selectionMode = "multiple"
                        THEN {S \in SUBSET idsOf(flatNodes) : Cardinality(S) > 1}
                        ELSE {{}}
  /\ loaderConfigured = TRUE
  /\ focusedId = NULL /\ anchorId = NULL
  /\ IdleDnd /\ IdleLazy /\ IdleConv /\ IdleObs /\ IdleGroup /\ IdleOwner

SpecDndLazy == InitDndLazy /\ [][NextDnd]_vars

\* ------------------------------------------------------------ C29 -------
\* C29: every completed same-tree drop conserves the node set: the tree
\* delivered through onItemsChange holds exactly the ids of the tree before
\* the drop, each exactly once, also when the target is a group whose
\* children are not loaded.
C29_DropConservesNodes ==
  [][Delivered
     => LET after == flattenTree(calls'.itemsChange[1], NULL, 0)
        IN  /\ idsOf(after) = idsOf(flatNodes)
            /\ Len(after) = Len(flatNodes)]_vars

\* C29 for the drops whose projected parent is not an unloaded group
C29_DropOutsideUnloadedGroupConservesNodes ==
  [][(Delivered /\ (projectedParentIdRef = NULL
                     \/ nodeOf(flatNodes, projectedParentIdRef).childrenLoaded))
     => LET after == flattenTree(calls'.itemsChange[1], NULL, 0)
        IN  /\ idsOf(after) = idsOf(flatNodes)
            /\ Len(after) = Len(flatNodes)]_vars

\* ------------------------------------------------------------ C35 -------
\* every node of a nested tree, at any level
RECURSIVE NestedNodeSet(_)
NestedNodeSet(nodes) ==
  {nodes[i] : i \in DOMAIN nodes}
    \cup UNION {IF nodes[i].children = Undefined THEN {}
                                                 ELSE NestedNodeSet(nodes[i].children[1])
                : i \in DOMAIN nodes}

nestedNode(nodes, id) == CHOOSE n \in NestedNodeSet(nodes) : n.id = id

hasNonEmptyChildren(n) == n.children # Undefined /\ Len(n.children[1]) > 0

\* C35: for every nested node flattenTree sets isGroup to true exactly when
\* the node's explicit isGroup is true or its children list is non-empty, and
\* childrenLoaded to true exactly when a children field is present.
C35_FlattenDerivesGroup ==
  cStep = "flat"
    => \A k \in DOMAIN cFlat :
         LET n == nestedNode(items, cFlat[k].id)
         IN  /\ cFlat[k].isGroup = (n.isGroup = Some(TRUE) \/ hasNonEmptyChildren(n))
             /\ cFlat[k].childrenLoaded = (n.children # Undefined)

\* C35 without the nodes that carry an explicit isGroup false and children
C35_FlattenDerivesGroupUnlessExplicitFalse ==
  cStep = "flat"
    => \A k \in DOMAIN cFlat :
         LET n == nestedNode(items, cFlat[k].id)
         IN  /\ ~(n.isGroup = Some(FALSE) /\ hasNonEmptyChildren(n))
                  => cFlat[k].isGroup = (n.isGroup = Some(TRUE) \/ hasNonEmptyChildren(n))
             /\ cFlat[k].childrenLoaded = (n.children # Undefined)

\* ------------------------------------- getProjection on its own ---------
\* trees whose inner nodes carry no isGroup or an explicit isGroup false
ProjectionTrees ==
  {t \in Forests(MaxNodes, {PlainLeaf, EmptyGroup}, {Undefined, Some(FALSE)}) :
     Cardinality(emptyGroups(t)) <= MaxEmptyGroups}

\* pointer offsets of up to two indentations, and of half an indentation
ProjectionOffsets ==
  {0 - 2 * IndentationWidth, 0 - IndentationWidth, 0 - (IndentationWidth \div 2), 0,
   IndentationWidth \div 2, IndentationWidth, 2 * IndentationWidth}

InitProject ==
  /\ items \in ProjectionTrees
  /\ expandedIds \in SUBSET idsOf(flatNodes)
  /\ IdleTree /\ IdleDnd /\ IdleLazy /\ IdleConv /\ IdleObs /\ IdleGroup /\ IdleOwner

\* getProjection(flatNodes, visibleNodes, activeId, overId, offsetX, indentWidth);
\* the inputs and the result are kept in the session variables of the same names
Project(active, over, offsetX) ==
  LET projection == getProjection(flatNodes, visibleNodes, active, over, offsetX,
                                  IndentationWidth)
  IN  /\ cStep = "input"
      /\ activeId' = active /\ overId' = over /\ offsetRef' = offsetX
      /\ projectedDepth' = projection.depth
      /\ projectedParentId' = projection.parentId
      /\ cStep' = "projected"
      /\ UNCHANGED <<treeVars, lazyVars, obsVars, groupVars, ownerVars, cFlat, cBuilt,
                     cVisible, cDescendants, dropPosition, dropPositionRef, projectedDepthRef,
                     projectedParentIdRef, hoverTimerRef, hoverTargetRef, opTarget, drags>>

NextProject ==
  \E active \in idsOf(flatNodes) \cup {ForeignId},
     over \in idsOf(flatNodes) \cup {ForeignId},
     offsetX \in ProjectionOffsets : Project(active, over, offsetX)

SpecProject == InitProject /\ [][NextProject]_vars

\* ------------------------------------------------------------ C31 -------
\* a projection was computed for a hovered node of the visible sequence
ProjectedOverVisible == cStep = "projected" /\ hasNode(visibleNodes, overId)

hoveredAt == positionOf(visibleNodes, overId)

baseOf == IF hasNode(flatNodes, activeId) THEN nodeOf(flatNodes, activeId).depth
                                          ELSE visibleNodes[hoveredAt].depth

upperOf == IF visibleNodes[hoveredAt].isGroup THEN visibleNodes[hoveredAt].depth + 1
                                              ELSE visibleNodes[hoveredAt].depth

lowerOf == IF hoveredAt < Len(visibleNodes) THEN visibleNodes[hoveredAt + 1].depth ELSE 0

\* the integers nearest to offsetX / indentWidth (two of them at a half)
Nearest(offsetX, indentWidth) ==
  {r \in -3..3 : /\ 2 * (offsetX - r * indentWidth) <= indentWidth
                 /\ 2 * (r * indentWidth - offsetX) <= indentWidth}

clamp(v, lower, upper) == IF v < lower THEN lower ELSE IF v > upper THEN upper ELSE v

\* C31: for a hovered node of the visible sequence getProjection returns
\* depth = clamp(max(0, base + round(offsetX / indentWidth)), lower, upper) with
\* base the dragged node's depth (the hovered node's if the dragged node is not
\* in the tree), upper the hovered depth (+ 1 for a group) and lower the depth
\* of the next visible node or 0; the depth lies in [lower, upper].
C31_ProjectedDepthClamped ==
  ProjectedOverVisible
    => /\ \E r \in Nearest(offsetRef, IndentationWidth) :
            projectedDepth = clamp(Max(0, baseOf + r), lowerOf, upperOf)
       /\ lowerOf <= projectedDepth /\ projectedDepth <= upperOf

\* C31 for the hovered nodes that are groups or have no visible child
C31_ProjectedDepthClampedUnlessFalseGroup ==
  (ProjectedOverVisible /\ lowerOf <= upperOf)
    => /\ \E r \in Nearest(offsetRef, IndentationWidth) :
            projectedDepth = clamp(Max(0, baseOf + r), lowerOf, upperOf)
       /\ lowerOf <= projectedDepth /\ projectedDepth <= upperOf

\* the hovered node is not a group although its child follows it, which
\* happens only under an explicit isGroup false
C31_LowerAboveUpperOnlyUnderFalseGroup ==
  (ProjectedOverVisible /\ lowerOf > upperOf)
    => nestedNode(items, overId).isGroup = Some(FALSE)

\* ------------------------------------------------------------ C32 -------
\* C32: in every result of getProjection parentId is null exactly when depth
\* is 0; otherwise parentId is the nearest node at or before the hovered node
\* in the visible sequence whose depth is depth - 1, and that node is the
\* hovered node or one of its ancestors.
C32_ProjectedParentIsNearestAncestor ==
  cStep = "projected"
    => /\ (projectedParentId = NULL) <=> (projectedDepth = 0)
       /\ projectedDepth > 0
            => /\ hasNode(visibleNodes, overId)
               /\ \E k \in 1..hoveredAt :
                    /\ visibleNodes[k].id = projectedParentId
                    /\ visibleNodes[k].depth = projectedDepth - 1
                    /\ \A j \in (k + 1)..hoveredAt :
                         visibleNodes[j].depth # projectedDepth - 1
               /\ \/ projectedParentId = overId
                  \/ overId \in DescendantsOf(flatNodes, projectedParentId)

\* the projected parent is an ancestor of the hovered node that is not the
\* first node of its depth in the visible sequence
C32_Witness ==
  /\ cStep = "projected" /\ projectedDepth > 0
  /\ projectedParentId # overId
  /\ \E j \in 1..(positionOf(visibleNodes, projectedParentId) - 1) :
       visibleNodes[j].depth = projectedDepth - 1

\* the hovered group itself is the projected parent
C32_WitnessInside ==
  cStep = "projected" /\ projectedDepth > 0 /\ projectedParentId = overId

\* ------------------------------------------------------------ C33 -------
\* a flat array in pre-order with every subtree contiguous: each node comes
\* after its parent, with nothing but descendants of that parent in between
FlatPreOrder(flat) ==
  \A k \in DOMAIN flat :
    flat[k].parentId # NULL
      => \E q \in 1..(k - 1) :
           /\ flat[q].id = flat[k].parentId
           /\ \A j \in (q + 1)..k : flat[k].parentId \in AncestorsOf(flat, flat[j].id)

idSeq(flat) == [k \in DOMAIN flat |-> flat[k].id]

\* `after` is `before` with the nodes inserted as one block, right before the
\* targetIndex-th existing child of targetParentId, or behind the last of its
\* children and what is below them when there are not that many
PlacedAt(before, after, nodes, targetParentId, targetIndex) ==
  LET siblings == SiblingsIn(before, targetParentId)
      newIds == idsOf(nodes)
      first == positionOf(after, nodes[1].id)
      next == first + Len(nodes)
  IN  /\ idSeq(SelectSeq(after, LAMBDA n : n.id \notin newIds)) = idSeq(before)
      /\ idSeq(SubSeq(after, first, next - 1)) = idSeq(nodes)
      /\ IF targetIndex < Len(siblings)
           THEN next <= Len(after) /\ after[next].id = siblings[targetIndex + 1].id
           ELSE LET children == SiblingsIn(after, targetParentId)
                IN  children[Len(children)].id = nodes[1].id
      /\ FlatPreOrder(after)

\* C33: insertNodes places the new nodes immediately before the
\* targetIndex-th existing child of targetParentId, and at the end of that
\* parent's children when targetIndex is not below the child count; the
\* result is in pre-order with every subtree contiguous.
C33_InsertKeepsPreOrder ==
  [][cStep' = "inserted"
     => \A targetParentId \in idsOf(cFlat) \cup {NULL}, targetIndex \in 0..MaxNodes :
          \A nodes \in NodesToInsert(cFlat, targetParentId) :
            cFlat' = insertNodes(cFlat, nodes, targetParentId, targetIndex)
              => PlacedAt(cFlat, cFlat', nodes, targetParentId, targetIndex)]_vars

\* C33 for the insertions before an existing child
C33_InsertBeforeChildKeepsPreOrder ==
  [][cStep' = "inserted"
     => \A targetParentId \in idsOf(cFlat) \cup {NULL}, targetIndex \in 0..MaxNodes :
          \A nodes \in NodesToInsert(cFlat, targetParentId) :
            (/\ cFlat' = insertNodes(cFlat, nodes, targetParentId, targetIndex)
             /\ targetIndex < Len(SiblingsIn(cFlat, targetParentId)))
              => PlacedAt(cFlat, cFlat', nodes, targetParentId, targetIndex)]_vars

\* the arrays flattenTree and removeNodes hand to insertNodes are in pre-order
C33_InputsArePreOrder == cStep \in {"flat", "removed"} => FlatPreOrder(cFlat)

\* ------------------------------------------------------------ C34 -------
\* the listed nodes of a flat array and everything parented under them
WithBelow(flat, ids) == ids \cup UNION {DescendantsOf(flat, id) : id \in ids}

\* C34: on a pre-order flat array removeNodes returns exactly the nodes that
\* are neither listed nor transitive descendants of a listed node, in their
\* original relative order, and getDescendantIds(flat, id) returns exactly the
\* nodes transitively parented under id.
C34_RemoveAndDescendantsExact ==
  [][/\ cStep' = "removed"
        => \A ids \in SUBSET idsOf(cFlat) :
             cFlat' = removeNodes(cFlat, ids)
               => idSeq(cFlat')
                    = idSeq(SelectSeq(cFlat, LAMBDA n : n.id \notin WithBelow(cFlat, ids)))
     /\ cStep' = "descendants"
        => /\ elements(cDescendants'.ids) = DescendantsOf(cFlat, cDescendants'.parentId)
           /\ Len(cDescendants'.ids) = Cardinality(elements(cDescendants'.ids))]_vars

\* a node and the nodes below it were removed, and a node is kept
C34_Witness ==
  /\ cStep = "removed"
  /\ cFlat # <<>>
  /\ \E a, c \in NestedIds(items) \ idsOf(cFlat) :
       ParentIn(flattenTree(items, NULL, 0), c) = a

\* a node, its child and its grandchild were removed
C34_WitnessChain ==
  /\ cStep = "removed"
  /\ \E a, c \in NestedIds(items) \ idsOf(cFlat) :
       ParentIn(flattenTree(items, NULL, 0), ParentIn(flattenTree(items, NULL, 0), c)) = a

\* getDescendantIds returned a child and a grandchild
C34_WitnessDescendants ==
  /\ cStep = "descendants"
  /\ \E k \in DOMAIN cDescendants.ids :
       LET p == ParentIn(cFlat, cDescendants.ids[k])
       IN  p # cDescendants.parentId /\ p \in elements(cDescendants.ids)

\* ------------------------------------------------------------ C36 -------
\* C36: the successful completion of a lazy load for node A changes the
\* expansion set only by adding A: every id that was in the set right before
\* the completion, also one expanded while the load was in flight, is still
\* in it afterwards.
C36_LoadCompletionOnlyAddsNode ==
  [][ev'.type = "loadResolved"
     => /\ expandedIds \subseteq expandedIds'
        /\ expandedIds' = expandedIds \cup {ev'.source}]_vars

\* C36 for the completions before which the expansion set is the one the
\* load started with
C36_LoadCompletionOnlyAddsNodeIfUnchanged ==
  [][(ev'.type = "loadResolved"
       /\ \E p \in pending : p.id = ev'.source /\ p.expandedIds = expandedIds)
     => expandedIds' = expandedIds \cup {ev'.source}]_vars

\* the completion adds the node to the expansion set in any case
C36_LoadCompletionExpandsNode ==
  [][ev'.type = "loadResolved" => ev'.source \in expandedIds']_vars

\* ------------------------------------------------------------ C37 -------
\* the group nodes that share the parentId of the focused node
SiblingGroups ==
  {flatNodes[k].id : k \in {j \in DOMAIN flatNodes :
                              /\ flatNodes[j].parentId = nodeOf(flatNodes, focusedId).parentId
                              /\ flatNodes[j].isGroup}}

StarOnFocus == ev'.type = "*" /\ hasNode(visibleNodes, focusedId)

\* C37: '*' with focus on a visible node expands all siblings of the focused
\* node: afterwards every group node with the parentId of the focused node is
\* in the expansion set, and no id that was in the set has been removed.
C37_StarExpandsAllSiblings ==
  [][StarOnFocus
     => /\ SiblingGroups \subseteq expandedIds'
        /\ expandedIds \subseteq expandedIds']_vars

\* C37 for a focused node with at most one group among its siblings
C37_StarExpandsSingleSiblingGroup ==
  [][(StarOnFocus /\ Cardinality(SiblingGroups) <= 1)
     => /\ SiblingGroups \subseteq expandedIds'
        /\ expandedIds \subseteq expandedIds']_vars

\* '*' never removes an id from the expansion set
C37_StarRemovesNothing ==
  [][StarOnFocus => expandedIds \subseteq expandedIds']_vars

\* ------------------------------------------------------------ C38 -------
\* C38: a completed drop inserts the moved nodes behind at least one
\* remaining node: when the first node of the tree in pre-order is not one of
\* the moved nodes, it is the first node of the flat result and the first
\* root of the delivered tree, so no drop places a node before the first root.
C38_FirstRootStaysFirst ==
  [][(Delivered /\ flatNodes[1].id \notin MovedNodes)
     => /\ calls'.buildTree[1][1].id = flatNodes[1].id
        /\ calls'.itemsChange[1][1].id = flatNodes[1].id
        /\ \A k \in DOMAIN calls'.buildTree[1] :
             calls'.buildTree[1][k].id \in MovedNodes => k > 1]_vars

\* a node from below was dropped on the first root with the pointer moved
\* out to the root level, and was delivered as the second root
C38_Witness ==
  /\ ev.type = "dragEnd" /\ calls.itemsChange # <<>>
  /\ Len(items) >= 2
  /\ ev.target = items[1].id
  /\ ev.source = items[2].id
  /\ calls.dragEnd[1].position = "after"
  /\ calls.dragEnd[1].projectedDepth = 0

\* ------------------------------------------------------------ C39 -------
Loading(id) == id \in loadingIds \/ id \in inFlightRef

Settled == ev'.type \in {"loadResolved", "loadRejected", "loadThrew"}

\* C39: every node that enters the loading state leaves it once its loader
\* call settles, whether the call resolves or rejects and whether or not a
\* callback run on completion throws: after the settlement the id is neither
\* in the in-flight set nor in loadingIds.
C39_LoadingEventuallyEnds ==
  /\ \A id \in NodeIds : Loading(id) ~> ~Loading(id)
  /\ [][Settled => ~(ev'.source \in loadingIds' \/ ev'.source \in inFlightRef')]_vars

\* a load resolved, the caller's onItemsChange threw, and the node is not
\* loading any more
C39_Witness ==
  /\ ev.type = "loadThrew" /\ ~ev.canceled
  /\ calls.loadError = <<ev.source>>
  /\ ~Loading(ev.source)

\* a load was rejected, onLoadError threw, and the node is not loading any more
C39_WitnessRejected ==
  ev.type = "loadThrew" /\ ev.canceled /\ ~Loading(ev.source)

====
